---- MODULE Spec2Model ----
(***************************************************************************)
(* Photo Studio scene generation pipeline of Brand Mosaic.                 *)
(*                                                                         *)
(*   - the wizard of PhotoStudioPage.tsx (product, context, scenes, mood,  *)
(*     generating, results) and its handlers;                              *)
(*   - generateScenes, the orchestrator: one scene at a time, the Gemini   *)
(*     model cascade with quality validation, the Pollinations fallback;   *)
(*   - validateImageQuality, the size heuristic that scores a candidate;   *)
(*   - interpretMood of InterpretationEngine.ts: the sanitizer, the        *)
(*     keyword classifiers and the scene rules, on texts that are          *)
(*     sequences of characters.                                            *)
(*                                                                         *)
(* An action is one run of a handler, or of the body of an async function  *)
(* from one await to the next.  The providers are the environment: what    *)
(* they answer is drawn with \E from the response sets below.              *)
(***************************************************************************)
EXTENDS Integers, Sequences, FiniteSets, TLC

\* ------------------------------------------------------------------------
\* Bounds of the model
\* ------------------------------------------------------------------------

\* image parts (and text parts) of one Gemini response
MaxParts == 1

\* the largest number of phrases in a mood text
MaxPhrases == 1

\* ------------------------------------------------------------------------
\* Program constants
\* ------------------------------------------------------------------------

QUALITY_THRESHOLD == 30

MAX_RETRIES == 2

\* the score from which a candidate is accepted at once (the literal 60)
ACCEPT_SCORE == 60

\* SceneSelector.handleToggle adds a scene only while fewer than 3 are selected
MAX_SCENES == 3

SceneType == {"studio", "lifestyle", "editorial"}

modelsToTry ==
  <<"gemini-3-pro-image-preview", "gemini-2.5-flash-image", "gemini-2.0-flash-exp">>

Null == "null"

\* ------------------------------------------------------------------------
\* Strings the pipeline measures or searches
\* ------------------------------------------------------------------------

\* A data URL "data:<mimeType>;base64,<data>" is the record of its mime type
\* and of the number of base64 characters of <data>; origin is the provider
\* that produced the bytes (history, not read by the program).
DataUrl(mime, n, who) == [mimeType |-> mime, dataLen |-> n, origin |-> who]

\* length of the mime types that occur
MimeLen(mime) ==
  CASE mime = "image/png" -> 9
    [] mime = "image/jpeg" -> 10
    [] mime = "image/svg+xml" -> 13
    [] OTHER -> 9

\* /^data:image\/\w+;base64,/ matches: the subtype is one run of word characters
PrefixMatches(mime) == mime \in {"image/png", "image/jpeg"}

\* base64.startsWith('data:image/')
StartsWithDataImage(mime) == mime \in {"image/png", "image/jpeg", "image/svg+xml"}

\* "data:" + mimeType + ";base64,"
PrefixLen(mime) == 5 + MimeLen(mime) + 8

\* bytes the base64 data decodes to (4 characters carry 3 bytes)
DecodedBytes(img) == (img.dataLen * 3) \div 4

\* Math.round of the non-negative rational num/den (halves round up)
MathRound(num, den) == (2 * num + den) \div (2 * den)

Min(a, b) == IF a < b THEN a ELSE b

Max(a, b) == IF a > b THEN a ELSE b

\* base64.replace(/^data:image\/\w+;base64,/, '').length
RawDataLen(img) ==
  IF PrefixMatches(img.mimeType) THEN img.dataLen
  ELSE PrefixLen(img.mimeType) + img.dataLen

\* Math.round((rawData.length * 3) / 4 / 1024)
SizeKB(img) == MathRound(RawDataLen(img) * 3, 4 * 1024)

validateImageQuality(img) ==
  LET sizeKB == SizeKB(img)
      sizeScore == Min(100, MathRound(sizeKB, 5))
  IN  IF sizeKB < 5 THEN [score |-> 0, reason |-> "Image too small (likely failed generation)"]
      ELSE IF sizeKB < 15 THEN [score |-> 20, reason |-> "Image suspiciously small"]
      ELSE IF ~StartsWithDataImage(img.mimeType)
        THEN [score |-> 0, reason |-> "Invalid image data format"]
      ELSE [score |-> Max(40, sizeScore), reason |-> "OK"]

\* ------------------------------------------------------------------------
\* What the providers can answer
\* ------------------------------------------------------------------------

\* one part of a Gemini response: inline data of a mime type, or text
Part(mime, n) == [mimeType |-> mime, dataLen |-> n]

TextPart == Part("text", 0)

\* Sizes on both sides of every threshold of validateImageQuality:
\*   6140 chars = 4605 bytes, 6200 chars = 4650 bytes (both under 5 KB),
\*   68268 chars = 51201 bytes (just over 50 KB), 406188 chars = 297.5 KB.
GeminiParts ==
  { Part("image/png", 6140), Part("image/png", 6200), Part("image/svg+xml", 6120),
    Part("image/png", 68268), Part("image/png", 406188), TextPart }

\* response.candidates[0].content.parts (empty when there is no candidate)
GeminiResponses ==
  UNION { [1..n -> GeminiParts] : n \in 0..MaxParts }

\* An error message is the sequence of its pieces; s.includes(x) asks for x
\* among the pieces.  A null error is the empty sequence.
NoError == << >>

Includes(msg, needle) == \E k \in 1..Len(msg) : msg[k] = needle

\* errors the Gemini client raises: bad key, quota, anything else
GeminiErrors ==
  { <<"API key", " not valid">>, <<"429", " RESOURCE_EXHAUSTED">>, <<"503", " UNAVAILABLE">> }

\* what the Pollinations fetch resolves to, and the errors it raises
PollinationsImages ==
  { DataUrl("image/jpeg", 2000, "pollinations") }

PollinationsErrors ==
  { <<"Pollinations API error: ", "502", " Bad Gateway">>, <<"The operation timed out.">> }

\* ------------------------------------------------------------------------
\* generateSceneWithGemini: the model cascade
\* ------------------------------------------------------------------------

NoImage == DataUrl("", 0, "none")

IsImagePart(part) == StartsWithDataImage(part.mimeType)

\* a bug: a score equal to the threshold is not accepted at once
AcceptImmediately_above(score) == score > ACCEPT_SCORE

\* quality.score >= 60: accept at once, no more samples
AcceptImmediately(score) == score >= ACCEPT_SCORE

\* a bug: the best sample is held to the acceptance score
BestIsUsable_strict(bestImage, bestScore) ==
  bestImage # NoImage /\ bestScore >= ACCEPT_SCORE

\* bestImage && bestScore >= QUALITY_THRESHOLD: the best sample is returned
BestIsUsable(bestImage, bestScore) ==
  bestImage # NoImage /\ bestScore >= QUALITY_THRESHOLD

\* `${modelName} returned no image in response`
NoImageError(m) == <<modelsToTry[m], " returned no image in response">>

\* `${modelName} output quality too low (score: ${bestScore})`
QualityError(m, bestScore) ==
  <<modelsToTry[m], " output quality too low (score: ", ToString(bestScore), ")">>

\* what one step of the cascade leads to: another call ("call"), the image it
\* returns ("return") or the error it throws ("throw"); seen is the set of
\* candidates the step scored
Outcome(kind, image, error, m, a, bi, bs, seen) ==
  [kind |-> kind, image |-> image, error |-> error,
   modelIdx |-> m, attempt |-> a, bestImage |-> bi, bestScore |-> bs, seen |-> seen]

\* the loop over the parts of one response
RECURSIVE ScanParts(_, _, _, _, _)
ScanParts(parts, k, bestImage, bestScore, seen) ==
  IF k > Len(parts)
    THEN [returned |-> NoImage, bestImage |-> bestImage, bestScore |-> bestScore,
          seen |-> seen]
  ELSE IF ~IsImagePart(parts[k])
    THEN ScanParts(parts, k + 1, bestImage, bestScore, seen)
  ELSE
    LET imageData == DataUrl(parts[k].mimeType, parts[k].dataLen, "gemini")
        quality == validateImageQuality(imageData)
        better == quality.score > bestScore
        bi == IF better THEN imageData ELSE bestImage
        bs == IF better THEN quality.score ELSE bestScore
    IN  IF AcceptImmediately(quality.score)
          THEN [returned |-> imageData, bestImage |-> bi, bestScore |-> bs,
                seen |-> seen \cup {imageData}]
          ELSE ScanParts(parts, k + 1, bi, bs, seen \cup {imageData})

\* after the attempts of model m: return the best sample, go to the next
\* model, or throw the last error
AfterAttempts(m, bestImage, bestScore, lastErr, seen) ==
  IF BestIsUsable(bestImage, bestScore)
    THEN Outcome("return", bestImage, NoError, m, 0, bestImage, bestScore, seen)
  ELSE
    LET err == IF bestImage # NoImage /\ bestScore < QUALITY_THRESHOLD
                 THEN QualityError(m, bestScore) ELSE lastErr
    IN  IF m < Len(modelsToTry)
          THEN Outcome("call", NoImage, err, m + 1, 0, NoImage, -1, seen)
          ELSE Outcome("throw", NoImage,
                       IF err = NoError THEN <<"Gemini did not return an acceptable image">>
                       ELSE err,
                       m, 0, NoImage, -1, seen)

\* a bug: the loop over the attempts runs once more
MoreAttempts_extra(a) == a < MAX_RETRIES

\* attempt++ ; attempt < MAX_RETRIES: the model is sampled again
MoreAttempts(a) == a + 1 < MAX_RETRIES

\* the attempt of model m answered with `parts`
OnGeminiResponse(m, a, bestImage, bestScore, lastErr, parts) ==
  LET scan == ScanParts(parts, 1, bestImage, bestScore, {})
      err == IF scan.bestImage = NoImage THEN NoImageError(m) ELSE lastErr
  IN  IF scan.returned # NoImage
        THEN Outcome("return", scan.returned, NoError, m, a, scan.bestImage, scan.bestScore,
                     scan.seen)
      ELSE IF MoreAttempts(a)
        THEN Outcome("call", NoImage, err, m, a + 1, scan.bestImage, scan.bestScore,
                     scan.seen)
      ELSE AfterAttempts(m, scan.bestImage, scan.bestScore, err, scan.seen)

\* a bug: a model that raised an error is asked once more
OnGeminiError_retry(m, bestImage, bestScore, err) ==
  Outcome("call", NoImage, err, m, MAX_RETRIES - 1, bestImage, bestScore, {})

\* the attempt of model m raised `err`: no retry of this model
OnGeminiError(m, bestImage, bestScore, err) ==
  AfterAttempts(m, bestImage, bestScore, err, {})

\* ------------------------------------------------------------------------
\* InterpretationEngine: the defaults when there is no mood text
\* ------------------------------------------------------------------------

\* selectedScenes.includes(sceneType)
includes(scenes, sceneType) == \E k \in 1..Len(scenes) : scenes[k] = sceneType

MoodInterpretation(t, e, m, l, raw, over, notes) ==
  [temperature |-> t, energy |-> e, materialBias |-> m, lightQuality |-> l,
   rawInput |-> raw, wasOverridden |-> over, overrideNotes |-> notes]

\* useState<MoodInterpretation | null>(null)
NoInterpretation == MoodInterpretation(Null, Null, Null, Null, << >>, FALSE, << >>)

\* a bug: a scene sets the defaults only when it is the only one selected
getDefaultInterpretation_only(rawInput, selectedScenes) ==
  LET hasEditorial == selectedScenes = <<"editorial">>
      hasStudio == selectedScenes = <<"studio">>
  IN  MoodInterpretation(
        "neutral", "calm",
        IF hasEditorial THEN "concrete" ELSE "none",
        IF hasEditorial THEN "directional"
        ELSE IF hasStudio THEN "bright even" ELSE "soft diffused",
        rawInput, FALSE, << >>)

getDefaultInterpretation(rawInput, selectedScenes) ==
  LET hasEditorial == includes(selectedScenes, "editorial")
      hasStudio == includes(selectedScenes, "studio")
  IN  MoodInterpretation(
        "neutral", "calm",
        IF hasEditorial THEN "concrete" ELSE "none",
        IF hasEditorial THEN "directional"
        ELSE IF hasStudio THEN "bright even" ELSE "soft diffused",
        rawInput, FALSE, << >>)

\* the literal handleGenerate passes when the wizard has no interpretation
FallbackInterpretation ==
  MoodInterpretation("neutral", "calm", "none", "soft diffused", << >>, FALSE, << >>)

\* ------------------------------------------------------------------------
\* InterpretationEngine: texts
\* ------------------------------------------------------------------------

\* A text is the sequence of its characters, each a one-character string; a
\* character outside ASCII is written by its code point ("U+2600").

UpperCase ==
  <<"A", "B", "C", "D", "E", "F", "G", "H", "I", "J", "K", "L", "M", "N", "O", "P", "Q", "R", "S", "T", "U", "V", "W", "X", "Y", "Z">>

LowerCase ==
  <<"a", "b", "c", "d", "e", "f", "g", "h", "i", "j", "k", "l", "m", "n", "o", "p", "q", "r", "s", "t", "u", "v", "w", "x", "y", "z">>

Digits == {"0", "1", "2", "3", "4", "5", "6", "7", "8", "9"}

\* the lower-case letter of every upper-case letter
LowerOf ==
  [c \in {UpperCase[k] : k \in 1..Len(UpperCase)} |->
     LowerCase[CHOOSE k \in 1..Len(UpperCase) : UpperCase[k] = c]]

LowerChar(c) == IF c \in DOMAIN LowerOf THEN LowerOf[c] ELSE c

\* String.prototype.toLowerCase
toLowerCase(text) == [k \in 1..Len(text) |-> LowerChar(text[k])]

\* \s of a regular expression
IsSpace(c) == c \in {" ", "\t", "\n"}

\* \w of a regular expression
WordChars ==
  {LowerCase[k] : k \in 1..Len(LowerCase)} \cup {UpperCase[k] : k \in 1..Len(UpperCase)}
    \cup Digits \cup {"_"}

IsWordChar(c) == c \in WordChars

\* the characters of the ranges the sanitizer's emoji expression lists
IsEmoji(c) == c \in {"U+2600", "U+1F600"}

\* text has `word` at position p
StartsAt(text, p, word) ==
  /\ p + Len(word) - 1 <= Len(text)
  /\ \A j \in 1..Len(word) : text[p + j - 1] = word[j]

\* the same under the i flag, for a lower-case word
StartsAtIgnoreCase(text, p, word) ==
  /\ p + Len(word) - 1 <= Len(text)
  /\ \A j \in 1..Len(word) : LowerChar(text[p + j - 1]) = word[j]

\* String.prototype.includes
includesText(text, word) ==
  \E p \in 1..(Len(text) - Len(word) + 1) : StartsAt(text, p, word)

\* \b between positions p - 1 and p
AtWordBoundary(text, p) ==
  (p > 1 /\ IsWordChar(text[p - 1])) # (p <= Len(text) /\ IsWordChar(text[p]))

\* the first position from p on that holds white space, or the end
NextSpace(text, p) ==
  CHOOSE q \in p..(Len(text) + 1) :
    /\ q > Len(text) \/ IsSpace(text[q])
    /\ \A r \in p..(q - 1) : ~IsSpace(text[r])

\* text without the characters at the positions in removed
Kept(text, removed) ==
  LET marked == SelectSeq([q \in 1..Len(text) |-> <<q, text[q]>>],
                          LAMBDA x : x[1] \notin removed)
  IN  [k \in 1..Len(marked) |-> marked[k][2]]

\* the length of what /https?:\/\/\S+/ matches at p, or 0
UrlAt(text, p) ==
  LET scheme == IF StartsAt(text, p, <<"h", "t", "t", "p", "s", ":", "/", "/">>) THEN 8
                ELSE IF StartsAt(text, p, <<"h", "t", "t", "p", ":", "/", "/">>) THEN 7
                ELSE 0
  IN  IF scheme > 0 /\ p + scheme <= Len(text) /\ ~IsSpace(text[p + scheme])
        THEN NextSpace(text, p + scheme) - p
        ELSE 0

\* .replace(/https?:\/\/\S+/g, ''): a match runs to the next white space,
\* so every match that starts inside another one ends where that one ends
RemoveUrls(text) ==
  LET starts == {q \in 1..Len(text) : UrlAt(text, q) > 0}
  IN  IF starts = {} THEN text
      ELSE Kept(text, {q \in 1..Len(text) :
                         \E m \in starts : m <= q /\ q < m + UrlAt(text, m)})

\* .replace(/[emoji ranges]/gu, '')
RemoveEmojis(text) == SelectSeq(text, LAMBDA c : ~IsEmoji(c))

\* /\bword\b/i matches at p
MatchesWord(text, p, word) ==
  /\ StartsAtIgnoreCase(text, p, word)
  /\ AtWordBoundary(text, p)
  /\ AtWordBoundary(text, p + Len(word))

\* text.replace(new RegExp(`\\b${word}\\b`, 'gi'), ''): the matches are cut
\* out. No word of the lists has a match that starts inside another match
\* of it.
replaceWord(text, word) ==
  LET starts == {q \in 1..Len(text) : MatchesWord(text, q, word)}
  IN  IF starts = {} THEN text
      ELSE Kept(text, {q \in 1..Len(text) :
                         \E m \in starts : m <= q /\ q < m + Len(word)})

\* for (const word of words) text = text.replace(...), from word k on
RECURSIVE StripWords(_, _, _)
StripWords(text, words, k) ==
  IF k > Len(words) \/ Len(text) = 0 THEN text
  ELSE StripWords(replaceWord(text, words[k]), words, k + 1)

\* .replace(/\b(w1|w2|...)\b/gi, ''): the words are single tokens, so two
\* matches never share a character
RemoveAnyWord(text, words) ==
  LET starts == {m \in (1..Len(text)) \X (1..Len(words)) :
                   MatchesWord(text, m[1], words[m[2]])}
  IN  IF starts = {} THEN text
      ELSE Kept(text, {q \in 1..Len(text) :
                         \E m \in starts : m[1] <= q /\ q < m[1] + Len(words[m[2]])})

\* .replace(/\s+/g, ' '): of every run of white space one space is left
CollapseSpaces(text) ==
  LET single == Kept(text, {q \in 2..Len(text) : IsSpace(text[q]) /\ IsSpace(text[q - 1])})
  IN  [k \in 1..Len(single) |-> IF IsSpace(single[k]) THEN " " ELSE single[k]]

\* String.prototype.trim
RECURSIVE trim(_)
trim(text) ==
  IF text = << >> THEN text
  ELSE IF IsSpace(text[1]) THEN trim(Tail(text))
  ELSE IF IsSpace(text[Len(text)]) THEN trim(SubSeq(text, 1, Len(text) - 1))
  ELSE text

\* a bug: nothing is cut off
slice_whole(text, n) == text

\* String.prototype.slice(0, n)
slice(text, n) == SubSeq(text, 1, IF Len(text) < n THEN Len(text) ELSE n)

\* [\s,] of the expression interpretMood splits at
IsSeparator(c) == IsSpace(c) \/ c = ","

\* the first position from p on that holds a separator, or the end
NextSeparator(text, p) ==
  CHOOSE q \in p..(Len(text) + 1) :
    /\ q > Len(text) \/ IsSeparator(text[q])
    /\ \A r \in p..(q - 1) : ~IsSeparator(text[r])

\* .split(/[\s,]+/).filter(w => w.length > 1): the pieces between the runs
\* of separators, in order
SplitWords(text) ==
  LET starts == SelectSeq([q \in 1..Len(text) |-> q],
                          LAMBDA q : /\ ~IsSeparator(text[q])
                                     /\ q = 1 \/ IsSeparator(text[q - 1]))
      pieces == [k \in 1..Len(starts) |->
                   SubSeq(text, starts[k], NextSeparator(text, starts[k]) - 1)]
  IN  SelectSeq(pieces, LAMBDA w : Len(w) > 1)

\* ------------------------------------------------------------------------
\* InterpretationEngine: dictionaries
\* ------------------------------------------------------------------------


\* in the order Object.entries lists the categories
TEMPERATURE_KEYWORDS ==
  <<
   [category |-> "warm", keywords |-> <<
      <<"w", "a", "r", "m">>, <<"g", "o", "l", "d", "e", "n">>, <<"a", "m", "b", "e", "r">>,
      <<"s", "u", "n", "s", "e", "t">>, <<"a", "u", "t", "u", "m", "n">>,
      <<"c", "o", "z", "y">>, <<"t", "e", "r", "r", "a", "c", "o", "t", "t", "a">>,
      <<"h", "o", "n", "e", "y">>, <<"r", "u", "s", "t", "i", "c">>,
      <<"c", "o", "p", "p", "e", "r">>, <<"e", "a", "r", "t", "h">>,
      <<"e", "a", "r", "t", "h", "y">>, <<"s", "u", "n">>, <<"c", "l", "a", "y">>,
      <<"o", "r", "a", "n", "g", "e">>, <<"y", "e", "l", "l", "o", "w">>,
      <<"c", "a", "n", "d", "l", "e", "l", "i", "g", "h", "t">>,
      <<"f", "i", "r", "e", "l", "i", "g", "h", "t">>, <<"s", "p", "i", "c", "e">>,
      <<"s", "a", "h", "a", "r", "a">>
   >>],
   [category |-> "cool", keywords |-> <<
      <<"c", "o", "o", "l">>, <<"c", "o", "l", "d">>, <<"i", "c", "e">>,
      <<"w", "i", "n", "t", "e", "r">>, <<"b", "l", "u", "e">>,
      <<"s", "i", "l", "v", "e", "r">>, <<"m", "o", "o", "n", "l", "i", "g", "h", "t">>,
      <<"f", "r", "o", "s", "t">>, <<"a", "r", "c", "t", "i", "c">>,
      <<"s", "t", "e", "e", "l">>, <<"s", "l", "a", "t", "e">>, <<"o", "c", "e", "a", "n">>,
      <<"m", "a", "r", "i", "n", "e">>, <<"t", "e", "a", "l">>,
      <<"g", "l", "a", "c", "i", "e", "r">>, <<"c", "r", "i", "s", "p">>,
      <<"f", "r", "e", "s", "h">>, <<"m", "i", "n", "t">>,
      <<"l", "a", "v", "e", "n", "d", "e", "r">>, <<"t", "w", "i", "l", "i", "g", "h", "t">>
   >>],
   [category |-> "neutral", keywords |-> <<
      <<"n", "e", "u", "t", "r", "a", "l">>, <<"b", "a", "l", "a", "n", "c", "e", "d">>,
      <<"c", "l", "e", "a", "n">>, <<"w", "h", "i", "t", "e">>, <<"g", "r", "a", "y">>,
      <<"g", "r", "e", "y">>, <<"m", "i", "n", "i", "m", "a", "l">>, <<"p", "u", "r", "e">>,
      <<"s", "i", "m", "p", "l", "e">>, <<"c", "l", "e", "a", "r">>,
      <<"m", "o", "n", "o", "c", "h", "r", "o", "m", "e">>, <<"m", "a", "t", "t", "e">>
   >>]
  >>

ENERGY_KEYWORDS ==
  <<
   [category |-> "calm", keywords |-> <<
      <<"c", "a", "l", "m">>, <<"s", "e", "r", "e", "n", "e">>, <<"q", "u", "i", "e", "t">>,
      <<"p", "e", "a", "c", "e", "f", "u", "l">>, <<"z", "e", "n">>,
      <<"s", "t", "i", "l", "l">>, <<"g", "e", "n", "t", "l", "e">>, <<"s", "o", "f", "t">>,
      <<"s", "u", "b", "t", "l", "e">>, <<"m", "u", "t", "e", "d">>,
      <<"w", "h", "i", "s", "p", "e", "r">>, <<"t", "r", "a", "n", "q", "u", "i", "l">>,
      <<"r", "e", "s", "t", "f", "u", "l">>,
      <<"m", "e", "d", "i", "t", "a", "t", "i", "v", "e">>, <<"h", "u", "s", "h", "e", "d">>,
      <<"t", "e", "n", "d", "e", "r">>, <<"d", "e", "l", "i", "c", "a", "t", "e">>
   >>],
   [category |-> "vibrant", keywords |-> <<
      <<"v", "i", "b", "r", "a", "n", "t">>, <<"b", "o", "l", "d">>,
      <<"e", "n", "e", "r", "g", "e", "t", "i", "c">>, <<"d", "y", "n", "a", "m", "i", "c">>,
      <<"b", "r", "i", "g", "h", "t">>, <<"p", "u", "n", "c", "h", "y">>,
      <<"s", "a", "t", "u", "r", "a", "t", "e", "d">>, <<"i", "n", "t", "e", "n", "s", "e">>,
      <<"e", "l", "e", "c", "t", "r", "i", "c">>, <<"v", "i", "v", "i", "d">>,
      <<"l", "o", "u", "d">>, <<"s", "t", "r", "i", "k", "i", "n", "g">>,
      <<"p", "o", "w", "e", "r", "f", "u", "l">>, <<"f", "i", "e", "r", "c", "e">>,
      <<"d", "r", "a", "m", "a", "t", "i", "c">>, <<"s", "t", "r", "o", "n", "g">>
   >>],
   [category |-> "moderate", keywords |-> <<
      <<"m", "o", "d", "e", "r", "a", "t", "e">>, <<"b", "a", "l", "a", "n", "c", "e", "d">>,
      <<"n", "a", "t", "u", "r", "a", "l">>, <<"o", "r", "g", "a", "n", "i", "c">>,
      <<"g", "r", "o", "u", "n", "d", "e", "d">>, <<"s", "t", "e", "a", "d", "y">>,
      <<"c", "l", "a", "s", "s", "i", "c">>, <<"e", "v", "e", "r", "y", "d", "a", "y">>,
      <<"a", "p", "p", "r", "o", "a", "c", "h", "a", "b", "l", "e">>,
      <<"c", "o", "m", "f", "o", "r", "t", "a", "b", "l", "e">>
   >>]
  >>

MATERIAL_KEYWORDS ==
  <<
   [category |-> "marble", keywords |-> <<
      <<"m", "a", "r", "b", "l", "e">>, <<"s", "t", "o", "n", "e">>,
      <<"e", "l", "e", "g", "a", "n", "t">>, <<"r", "e", "f", "i", "n", "e", "d">>,
      <<"p", "o", "l", "i", "s", "h", "e", "d">>, <<"v", "e", "i", "n", "e", "d">>
   >>],
   [category |-> "wood", keywords |-> <<
      <<"w", "o", "o", "d">>, <<"w", "o", "o", "d", "e", "n">>,
      <<"n", "a", "t", "u", "r", "a", "l">>, <<"o", "r", "g", "a", "n", "i", "c">>,
      <<"r", "u", "s", "t", "i", "c">>, <<"e", "a", "r", "t", "h", "y">>,
      <<"c", "a", "b", "i", "n">>, <<"o", "a", "k">>, <<"w", "a", "l", "n", "u", "t">>,
      <<"p", "i", "n", "e">>, <<"g", "r", "a", "i", "n">>
   >>],
   [category |-> "concrete", keywords |-> <<
      <<"c", "o", "n", "c", "r", "e", "t", "e">>,
      <<"i", "n", "d", "u", "s", "t", "r", "i", "a", "l">>, <<"u", "r", "b", "a", "n">>,
      <<"b", "r", "u", "t", "a", "l", "i", "s", "t">>, <<"r", "a", "w">>,
      <<"l", "o", "f", "t">>, <<"c", "e", "m", "e", "n", "t">>, <<"g", "r", "e", "y">>
   >>],
   [category |-> "fabric", keywords |-> <<
      <<"f", "a", "b", "r", "i", "c">>, <<"l", "i", "n", "e", "n">>,
      <<"t", "e", "x", "t", "i", "l", "e">>, <<"s", "o", "f", "t">>,
      <<"d", "r", "a", "p", "e", "d">>, <<"s", "i", "l", "k">>,
      <<"c", "o", "t", "t", "o", "n">>, <<"v", "e", "l", "v", "e", "t">>,
      <<"w", "o", "v", "e", "n">>, <<"c", "l", "o", "t", "h">>
   >>],
   [category |-> "metal", keywords |-> <<
      <<"m", "e", "t", "a", "l">>, <<"c", "h", "r", "o", "m", "e">>,
      <<"s", "t", "e", "e", "l">>, <<"f", "u", "t", "u", "r", "i", "s", "t", "i", "c">>,
      <<"m", "o", "d", "e", "r", "n">>, <<"t", "e", "c", "h">>,
      <<"a", "l", "u", "m", "i", "n", "u", "m">>, <<"b", "r", "u", "s", "h", "e", "d">>,
      <<"i", "r", "o", "n">>
   >>],
   [category |-> "ceramic", keywords |-> <<
      <<"c", "e", "r", "a", "m", "i", "c">>, <<"p", "o", "t", "t", "e", "r", "y">>,
      <<"a", "r", "t", "i", "s", "a", "n">>, <<"h", "a", "n", "d", "m", "a", "d", "e">>,
      <<"c", "l", "a", "y">>, <<"t", "e", "r", "r", "a", "c", "o", "t", "t", "a">>,
      <<"g", "l", "a", "z", "e", "d">>
   >>]
  >>

LIGHT_QUALITY_KEYWORDS ==
  <<
   [category |-> "soft diffused", keywords |-> <<
      <<"s", "o", "f", "t">>, <<"d", "i", "f", "f", "u", "s", "e", "d">>,
      <<"g", "e", "n", "t", "l", "e">>, <<"c", "l", "o", "u", "d">>,
      <<"o", "v", "e", "r", "c", "a", "s", "t">>, <<"f", "l", "a", "t">>,
      <<"e", "v", "e", "n">>, <<"a", "m", "b", "i", "e", "n", "t">>
   >>],
   [category |-> "golden hour", keywords |-> <<
      <<"g", "o", "l", "d", "e", "n">>, <<"s", "u", "n", "s", "e", "t">>,
      <<"s", "u", "n", "r", "i", "s", "e">>, <<"w", "a", "r", "m", " ", "g", "l", "o", "w">>,
      <<"a", "m", "b", "e", "r", " ", "l", "i", "g", "h", "t">>,
      <<"m", "a", "g", "i", "c", " ", "h", "o", "u", "r">>
   >>],
   [category |-> "directional", keywords |-> <<
      <<"d", "r", "a", "m", "a", "t", "i", "c">>,
      <<"d", "i", "r", "e", "c", "t", "i", "o", "n", "a", "l">>,
      <<"s", "h", "a", "d", "o", "w">>, <<"c", "o", "n", "t", "r", "a", "s", "t">>,
      <<"m", "o", "o", "d", "y">>, <<"c", "h", "i", "a", "r", "o", "s", "c", "u", "r", "o">>,
      <<"s", "c", "u", "l", "p", "t", "e", "d">>, <<"a", "n", "g", "u", "l", "a", "r">>
   >>],
   [category |-> "bright even", keywords |-> <<
      <<"b", "r", "i", "g", "h", "t">>, <<"c", "l", "e", "a", "n">>, <<"e", "v", "e", "n">>,
      <<"d", "a", "y", "l", "i", "g", "h", "t">>, <<"c", "l", "e", "a", "r">>,
      <<"c", "r", "i", "s", "p", " ", "l", "i", "g", "h", "t">>,
      <<"s", "t", "u", "d", "i", "o">>
   >>]
  >>

JARGON_WORDS ==
  <<
    <<"8", "k">>, <<"4", "k">>, <<"h", "d", "r">>,
    <<"c", "i", "n", "e", "m", "a", "t", "i", "c">>, <<"u", "l", "t", "r", "a">>,
    <<"h", "y", "p", "e", "r">>, <<"r", "e", "a", "l", "i", "s", "t", "i", "c">>,
    <<"p", "h", "o", "t", "o", "r", "e", "a", "l", "i", "s", "t", "i", "c">>,
    <<"o", "c", "t", "a", "n", "e">>, <<"u", "n", "r", "e", "a", "l">>,
    <<"r", "e", "n", "d", "e", "r">>, <<"r", "a", "y", "t", "r", "a", "c", "i", "n", "g">>,
    <<"b", "o", "k", "e", "h">>,
    <<"d", "e", "p", "t", "h", " ", "o", "f", " ", "f", "i", "e", "l", "d">>,
    <<"d", "s", "l", "r">>, <<"c", "a", "n", "o", "n">>, <<"n", "i", "k", "o", "n">>,
    <<"s", "o", "n", "y">>, <<"m", "a", "s", "t", "e", "r", "p", "i", "e", "c", "e">>,
    <<"b", "e", "s", "t", " ", "q", "u", "a", "l", "i", "t", "y">>,
    <<"a", "w", "a", "r", "d", " ", "w", "i", "n", "n", "i", "n", "g">>,
    <<"t", "r", "e", "n", "d", "i", "n", "g">>,
    <<"a", "r", "t", "s", "t", "a", "t", "i", "o", "n">>,
    <<"d", "e", "v", "i", "a", "n", "t", "a", "r", "t">>,
    <<"b", "e", "h", "a", "n", "c", "e">>, <<"d", "r", "i", "b", "b", "b", "l", "e">>
  >>

HYPE_WORDS ==
  <<
    <<"l", "u", "x", "u", "r", "y">>, <<"l", "u", "x", "u", "r", "i", "o", "u", "s">>,
    <<"p", "r", "e", "m", "i", "u", "m">>, <<"e", "x", "c", "l", "u", "s", "i", "v", "e">>,
    <<"a", "e", "s", "t", "h", "e", "t", "i", "c">>, <<"v", "i", "b", "e">>,
    <<"v", "i", "b", "e", "s">>, <<"v", "i", "b", "e", "z">>, <<"f", "i", "r", "e">>,
    <<"l", "i", "t">>, <<"s", "l", "a", "y">>, <<"i", "c", "o", "n", "i", "c">>,
    <<"i", "n", "s", "a", "n", "e">>, <<"a", "m", "a", "z", "i", "n", "g">>,
    <<"g", "o", "r", "g", "e", "o", "u", "s">>, <<"s", "t", "u", "n", "n", "i", "n", "g">>,
    <<"b", "r", "e", "a", "t", "h", "t", "a", "k", "i", "n", "g">>,
    <<"i", "n", "c", "r", "e", "d", "i", "b", "l", "e">>,
    <<"u", "n", "b", "e", "l", "i", "e", "v", "a", "b", "l", "e">>, <<"e", "p", "i", "c">>,
    <<"l", "e", "g", "e", "n", "d", "a", "r", "y">>, <<"g", "o", "a", "t", "e", "d">>
  >>

\* the alternatives of the brand expression
BRAND_WORDS ==
  <<
    <<"s", "s", "e", "n", "s", "e">>, <<"z", "a", "r", "a">>, <<"a", "e", "s", "o", "p">>,
    <<"a", "p", "p", "l", "e">>, <<"n", "i", "k", "e">>, <<"g", "u", "c", "c", "i">>,
    <<"p", "r", "a", "d", "a">>, <<"c", "h", "a", "n", "e", "l">>, <<"d", "i", "o", "r">>,
    <<"b", "a", "l", "e", "n", "c", "i", "a", "g", "a">>, <<"c", "e", "l", "i", "n", "e">>
  >>

\* ------------------------------------------------------------------------
\* InterpretationEngine: sanitizeInput, the classifiers, interpretMood
\* ------------------------------------------------------------------------

MAX_MOOD_CHARS == 200

sanitizeInput(input) ==
  LET noUrls == RemoveUrls(input)
      noEmojis == RemoveEmojis(noUrls)
      noBrands == RemoveAnyWord(noEmojis, BRAND_WORDS)
      lowered == toLowerCase(trim(CollapseSpaces(noBrands)))
      noJargon == StripWords(lowered, JARGON_WORDS, 1)
      noHype == StripWords(noJargon, HYPE_WORDS, 1)
  IN  slice(trim(CollapseSpaces(noHype)), MAX_MOOD_CHARS)

\* w.includes(k) || k.includes(w)
MatchesEitherWay(w, k) == includesText(w, k) \/ includesText(k, w)

\* words.filter(w => keywords.some(k => ...)).length
KeywordScore(words, keywords, eitherWay) ==
  Cardinality({n \in 1..Len(words) :
    \E j \in 1..Len(keywords) :
      IF eitherWay THEN MatchesEitherWay(words[n], keywords[j])
      ELSE includesText(words[n], keywords[j])})

\* a bug: a later category takes over with an equal score
RECURSIVE BestCategory_orEqual(_, _, _, _, _, _)
BestCategory_orEqual(words, dictionary, n, bestMatch, bestScore, eitherWay) ==
  IF n > Len(dictionary) THEN bestMatch
  ELSE LET score == KeywordScore(words, dictionary[n].keywords, eitherWay)
       IN  IF score >= bestScore
             THEN BestCategory_orEqual(words, dictionary, n + 1, dictionary[n].category,
                                       score, eitherWay)
             ELSE BestCategory_orEqual(words, dictionary, n + 1, bestMatch, bestScore,
                                       eitherWay)

\* the loop over Object.entries(dictionary), from entry n on
RECURSIVE BestCategory(_, _, _, _, _, _)
BestCategory(words, dictionary, n, bestMatch, bestScore, eitherWay) ==
  IF n > Len(dictionary) THEN bestMatch
  ELSE LET score == KeywordScore(words, dictionary[n].keywords, eitherWay)
       IN  IF score > bestScore
             THEN BestCategory(words, dictionary, n + 1, dictionary[n].category, score,
                               eitherWay)
             ELSE BestCategory(words, dictionary, n + 1, bestMatch, bestScore, eitherWay)

classifyByKeywords(words, dictionary, fallback) ==
  BestCategory(words, dictionary, 1, fallback, 0, TRUE)

classifyMaterial(words) == BestCategory(words, MATERIAL_KEYWORDS, 1, "none", 0, FALSE)

classifyLightQuality(words) ==
  BestCategory(words, LIGHT_QUALITY_KEYWORDS, 1, "soft diffused", 0, TRUE)

\* interpretMood's locals: the four dimensions, wasOverridden, overrideNotes
Intent(t, e, m, l, over, notes) ==
  [temperature |-> t, energy |-> e, materialBias |-> m, lightQuality |-> l,
   wasOverridden |-> over, overrideNotes |-> notes]

\* Step 2: extract intent
ExtractIntent(words) ==
  Intent(classifyByKeywords(words, TEMPERATURE_KEYWORDS, "neutral"),
         classifyByKeywords(words, ENERGY_KEYWORDS, "moderate"),
         classifyMaterial(words),
         classifyLightQuality(words),
         FALSE, << >>)

\* overrideNotes.push(note); wasOverridden = true. A note is the sequence of
\* the pieces of its template string: the rule's scene, the dimension, the
\* rest; the arrow of the source is written "->".
Override(r, note) ==
  [r EXCEPT !.overrideNotes = Append(@, note), !.wasOverridden = TRUE]

StudioTemperature(r) ==
  IF r.temperature # "neutral"
    THEN [Override(r, <<"Studio: ", "temperature", " \"", r.temperature, "\" -> \"neutral\"">>)
            EXCEPT !.temperature = "neutral"]
    ELSE r

StudioEnergy(r) ==
  IF r.energy = "vibrant"
    THEN [Override(r, <<"Studio: ", "energy", " \"vibrant\" -> \"moderate\"">>)
            EXCEPT !.energy = "moderate"]
    ELSE r

StudioMaterial(r) ==
  IF r.materialBias # "none"
    THEN [Override(r, <<"Studio: ", "material", " \"", r.materialBias, "\" removed (no props)">>)
            EXCEPT !.materialBias = "none"]
    ELSE r

StudioLight(r) ==
  IF r.lightQuality # "soft diffused" /\ r.lightQuality # "bright even"
    THEN [Override(r, <<"Studio: ", "light", " \"", r.lightQuality, "\" -> \"bright even\"">>)
            EXCEPT !.lightQuality = "bright even"]
    ELSE r

\* a bug: the studio rules also fire when studio is one of several scenes
StudioRules_always(r, selected) ==
  IF includes(selected, "studio")
    THEN StudioLight(StudioMaterial(StudioEnergy(StudioTemperature(r))))
    ELSE r

\* STUDIO: strict enforcement when studio is the only scene
StudioRules(r, selected) ==
  IF includes(selected, "studio") /\ Len(selected) = 1
    THEN StudioLight(StudioMaterial(StudioEnergy(StudioTemperature(r))))
    ELSE r

\* a bug: the rule gives way to editorial when both are selected
LifestyleRules_unlessEditorial(r, selected) ==
  IF includes(selected, "lifestyle") /\ ~includes(selected, "editorial")
     /\ r.lightQuality = "directional"
    THEN [Override(r, <<"Lifestyle: ", "directional light", " -> \"soft diffused\"">>)
            EXCEPT !.lightQuality = "soft diffused"]
    ELSE r

\* LIFESTYLE: no directional light
LifestyleRules(r, selected) ==
  IF includes(selected, "lifestyle") /\ r.lightQuality = "directional"
    THEN [Override(r, <<"Lifestyle: ", "directional light", " -> \"soft diffused\"">>)
            EXCEPT !.lightQuality = "soft diffused"]
    ELSE r

\* a bug: editorial leaves the material as classified
EditorialRules_lightOnly(r, selected) ==
  IF includes(selected, "editorial")
    THEN [r EXCEPT !.lightQuality = IF @ = "bright even" THEN "directional" ELSE @]
    ELSE r

\* a bug: the editorial adjustments are recorded as overrides
EditorialRules_noted(r, selected) ==
  IF includes(selected, "editorial")
    THEN LET light == IF r.lightQuality = "bright even"
                        THEN [Override(r, <<"Editorial: ", "light", " -> \"directional\"">>)
                                EXCEPT !.lightQuality = "directional"]
                        ELSE r
         IN  IF light.materialBias = "none"
               THEN [Override(light, <<"Editorial: ", "material", " -> \"concrete\"">>)
                       EXCEPT !.materialBias = "concrete"]
               ELSE light
    ELSE r

\* EDITORIAL: directional instead of bright even, concrete instead of no
\* material; neither is flagged as an override
EditorialRules(r, selected) ==
  IF includes(selected, "editorial")
    THEN [r EXCEPT
            !.lightQuality = IF @ = "bright even" THEN "directional" ELSE @,
            !.materialBias = IF @ = "none" THEN "concrete" ELSE @]
    ELSE r

interpretMood(rawInput, selected) ==
  LET sanitized == sanitizeInput(rawInput)
  IN  IF Len(sanitized) < 2
        THEN getDefaultInterpretation(rawInput, selected)
        ELSE LET words == SplitWords(sanitized)
                 r == EditorialRules(
                        LifestyleRules(StudioRules(ExtractIntent(words), selected), selected),
                        selected)
             IN  MoodInterpretation(r.temperature, r.energy, r.materialBias, r.lightQuality,
                                    rawInput, r.wasOverridden, r.overrideNotes)

\* ------------------------------------------------------------------------
\* The mood texts and scene selections interpretMood is applied to
\* ------------------------------------------------------------------------

\* what the user types, phrase by phrase
MoodPhrases ==
  {
    <<"d", "r", "a", "m", "a", "t", "i", "c", " ", "t", "e", "r", "r", "a", "c", "o", "t", "t", "a">>,
    <<"G", "o", "l", "d", "e", "n">>,
    <<"s", "o", "f", "t", ",">>,
    <<"v", "i", "b", "r", "a", "n", "t", " ", "n", "e", "o", "n", " ", "e", "n", "e", "r", "g", "y">>,
    <<"N", "i", "k", "e", " ", "8", "k", " ", "l", "u", "x", "u", "r", "y">>,
    <<"c", "l", "e", "a", "n", "U+2600", " ", "h", "t", "t", "p", "s", ":", "/", "/", "a", ".", "i", "o">>,
    <<"c", "o", "o", "l", " ", "s", "t", "e", "e", "l">>,
    <<"n", "a", "t", "u", "r", "a", "l">>,
    <<"d", "r", "a", "m", "a", "t", "i", "c", " ", "s", "h", "a", "d", "o", "w", " ", "c", "o", "n", "t", "r", "a", "s", "t">>,
    <<"w", "a", "r", "m", " ", "c", "o", "z", "y">>,
    <<"a", " ", "4", "k">>,
    <<"w", "a", "r", "m", " ", "w", "i", "n", "t", "e", "r">>,
    <<"g", "l", "a", "z", "e">>
  }

\* the phrases, one space between them
RECURSIVE JoinPhrases(_)
JoinPhrases(phrases) ==
  IF Len(phrases) = 0 THEN << >>
  ELSE IF Len(phrases) = 1 THEN phrases[1]
  ELSE phrases[1] \o <<" ">> \o JoinPhrases(Tail(phrases))

MoodTexts ==
  {JoinPhrases(phrases) : phrases \in UNION {[1..n -> MoodPhrases] : n \in 0..MaxPhrases}}

\* the selections handleToggle can build: up to three scenes, none twice
SceneLists ==
  {scenes \in UNION {[1..n -> SceneType] : n \in 1..MAX_SCENES} :
     \A j, k \in 1..Len(scenes) : j # k => scenes[j] # scenes[k]}

\* ------------------------------------------------------------------------
\* State
\* ------------------------------------------------------------------------

VARIABLES
  \* PhotoStudioPage: props and useState
  step, product, businessContext, selectedScenes, moodText,
  interpretation, results, progressCurrent, progressTotal, progressScene,
  \* the showError / showSuccess call of the last step, if it made one
  notice,
  \* the running generateScenes call: its request and locals
  request, genResults, i, pc, prompt,
  \* the running generateSceneWithGemini call: its locals
  modelIdx, attempt, bestImage, bestScore, lastError,
  \* the error generateScenes caught from the cascade
  geminiError,
  \* history: provider calls issued for the scene in progress
  geminiCalls, fallbackCalls,
  \* history: the candidates the last step scored, the error the fallback
  \* raised in the last step
  scored, pollinationsError,
  \* history: the mode, the credits and the key the page had at the click on
  \* generate or skip of the last step, if it was one
  asked,
  \* history: one earlier compilation, kept to compare later ones with
  remembered,
  \* history: what sanitizeInput returned to the last debounced interpretMood
  lastSanitized

wizardVars ==
  <<step, product, businessContext, selectedScenes, moodText, interpretation, results>>

progressVars == <<progressCurrent, progressTotal, progressScene>>

cascadeVars == <<modelIdx, attempt, bestImage, bestScore, lastError>>

batchVars == <<request, genResults, i, pc, prompt, geminiError>>

callVars == <<geminiCalls, fallbackCalls>>

historyVars == <<remembered, lastSanitized>>

stepVars == <<notice, scored, pollinationsError, asked>>

vars == <<wizardVars, progressVars, cascadeVars, batchVars, callVars, stepVars, historyVars>>

\* ------------------------------------------------------------------------
\* The prompt compiler: locked scene templates and the mood's modifiers.
\* A prompt is a text written as the sequence of the fragments it is
\* concatenated from.
\* ------------------------------------------------------------------------

PromptPair(positive, negative) == [positive |-> positive, negative |-> negative]

NoPrompt == PromptPair(<< >>, << >>)

\* items.join(sep)
RECURSIVE join(_, _)
join(items, sep) ==
  IF Len(items) = 0 THEN << >>
  ELSE IF Len(items) = 1 THEN items[1]
  ELSE items[1] \o <<sep>> \o join(Tail(items), sep)

\* items.filter(Boolean): the empty texts are dropped
filterBoolean(items) == SelectSeq(items, LAMBDA t : t # << >>)

\* a list of string literals as a list of texts
Texts(strings) == [k \in 1..Len(strings) |-> <<strings[k]>>]

\* a bug: the light the mood asks for is written into the modifier
buildMoodModifier_withLight(interp) == <<"mood: ", interp.temperature, interp.lightQuality>>

\* mods.join(', '), or '' when there is no mod
buildMoodModifier(interp) ==
  LET temperatureMod ==
        IF interp.temperature = "warm" THEN <<<<"very slightly warm color temperature">>>>
        ELSE IF interp.temperature = "cool"
          THEN <<<<"very slightly cool color temperature">>>>
        ELSE << >>
      energyMod ==
        IF interp.energy = "calm" THEN <<<<"muted, restrained tonal palette">>>>
        ELSE IF interp.energy = "vibrant"
          THEN <<<<"slightly richer color saturation, maintaining realism">>>>
        ELSE << >>
  IN  join(temperatureMod \o energyMod, ", ")

materialMap ==
  [marble |-> <<"polished marble or stone surface">>,
   wood |-> <<"natural light wood surface">>,
   concrete |-> <<"matte concrete surface">>,
   fabric |-> <<"clean linen or cotton textile surface">>,
   metal |-> <<"brushed metal surface">>,
   ceramic |-> <<"ceramic surface">>]

buildMaterialHint(interp, sceneType) ==
  IF sceneType = "studio" THEN << >>
  ELSE IF interp.materialBias = "none" THEN << >>
  ELSE IF interp.materialBias \in DOMAIN materialMap THEN materialMap[interp.materialBias]
  ELSE << >>

\* [...].filter(Boolean).join('. ') + '.'
Sentences(items) == join(filterBoolean(items), ". ") \o <<".">>

\* buildStudioPrompt: the locked sentences after the opening one
StudioBase ==
  <<
    <<"shot in a professional photography studio">>,
    <<"neutral off-white seamless paper background with very subtle warm grey tone">>,
    <<"soft diffused studio lighting from two large softboxes at 45-degree angles">>,
    <<"gentle fill light from below to reduce harsh shadows">>,
    <<"physically realistic soft shadows on the background surface">>,
    <<"accurate material rendering with true-to-life surface textures">>,
    <<"neutral color science, no color cast">>,
    <<"product centered in frame filling approximately 60-65% of the composition">>,
    <<"straight-on camera angle with very slight 10-degree overhead elevation">>,
    <<"sharp focus throughout the entire product with high depth of field">>,
    <<"shot on medium format digital camera, f/8-f/11 aperture">>,
    <<"high-end e-commerce catalog quality, ready for product page">>,
    <<"completely realistic, no AI artifacts, no synthetic appearance">>
  >>

\* buildStudioPrompt: the block list
StudioNegative ==
  <<
    "props", "decoration", "surface texture", "table", "shelf", "floor visible",
    "environment", "room", "interior", "lifestyle elements", "context objects", "hands",
    "people", "faces", "bodies", "fingers", "human presence", "text", "watermark",
    "logo", "branding", "label overlay", "typography", "distorted product",
    "hallucinated features", "wrong proportions", "multiple products", "blurry",
    "soft focus", "motion blur", "out of focus areas", "low quality", "low resolution",
    "jpeg artifacts", "noise", "grain", "illustration", "painting", "drawing",
    "cartoon", "anime", "sketch", "dramatic lighting", "rim light", "spotlight",
    "harsh shadows", "deep shadows", "lens flare", "god rays", "light leaks", "bokeh",
    "chromatic aberration", "cinematic", "film grain", "color grading", "split toning",
    "cross processing", "neon", "gradients", "color splash", "HDR effect",
    "over-saturated", "hyperreal", "glossy", "plastic appearance", "synthetic look",
    "AI artifacts", "vignette", "fisheye", "wide angle distortion", "tilt shift",
    "reflections of studio equipment", "visible light source"
  >>

buildStudioPrompt(productName, interp) ==
  LET moodMod == buildMoodModifier(interp)
  IN  PromptPair(
        Sentences(<<<<"Professional commercial product photography of ", productName>>>>
                  \o StudioBase \o <<moodMod>>),
        join(Texts(StudioNegative), ", "))

\* buildLifestylePrompt: the locked sentences after the surface
LifestyleBase ==
  <<
    <<"uncluttered calm environment with only 1-2 very subtle contextual elements">>,
    <<"soft natural daylight from a window source, ambient fill">>,
    <<"no direct sunlight or harsh beams">>,
    <<"physically accurate shadows, soft and natural">>,
    <<"neutral to warm natural color palette">>,
    <<"product is the clear primary focal point in the composition">>,
    <<"off-center product placement with breathing room and negative space">>,
    <<"shallow but controlled depth of field, product entirely sharp">>,
    <<"background gently out of focus but recognizably real">>,
    <<"environment feels lived-in but deliberately styled">>,
    <<"shot on full-frame camera, natural perspective">>,
    <<"high-end brand lifestyle photography quality">>,
    <<"completely realistic, no AI artifacts">>
  >>

\* buildLifestylePrompt: the block list
LifestyleNegative ==
  <<
    "people", "faces", "hands", "bodies", "fashion posing", "human presence",
    "cluttered background", "busy interior", "decorative overload", "maximalist",
    "too many props", "obvious staging", "fake plants", "stock photo feel", "text",
    "watermark", "logo", "brand name", "label", "typography", "distorted product",
    "hallucinated features", "multiple copies", "wrong scale", "illustration",
    "painting", "cartoon", "synthetic look", "AI appearance", "dramatic shadows",
    "cinematic flares", "surreal effects", "HDR", "over-saturated colors",
    "neon lighting", "colored lighting gels", "lens flare", "god rays", "bokeh balls",
    "light leaks", "heavy color grading", "film emulation", "cross processing",
    "hyperreal textures", "plastic surfaces", "artificial gloss",
    "studio lighting visible", "flash photography", "harsh direct light",
    "blurry product", "motion blur", "low quality", "jpeg artifacts"
  >>

buildLifestylePrompt(productName, interp) ==
  LET moodMod == buildMoodModifier(interp)
      materialHint == buildMaterialHint(interp, "lifestyle")
      surface == IF materialHint # << >> THEN materialHint
                 ELSE <<"clean natural light wood or white surface">>
  IN  PromptPair(
        Sentences(<<<<"Lifestyle product photography of ", productName>>,
                    <<"placed naturally in a realistic minimal interior setting">>,
                    <<"product resting on ">> \o surface>>
                  \o LifestyleBase \o <<moodMod>>),
        join(Texts(LifestyleNegative), ", "))

\* buildEditorialPrompt: the locked sentences after the backdrop
EditorialBase ==
  <<
    <<"intentional directional lighting from a single controlled source">>,
    <<"physically plausible shadows with clear directionality">>,
    <<"shadow edges are soft-medium, never harsh or razor-sharp">>,
    <<"restrained neutral color palette with quiet visual authority">>,
    <<"asymmetric composition with generous negative space">>,
    <<"product positioned as a sculptural focal object within the frame">>,
    <<"architectural sense of scale and environment">>,
    <<"no commercial gloss, no trend-driven styling, no decoration">>,
    <<"disciplined visual language, every element has purpose">>,
    <<"shot on medium format camera with professional lens">>,
    <<"art-directed campaign-grade photography">>,
    <<"completely realistic, absolutely no AI artifacts">>
  >>

\* buildEditorialPrompt: the block list
EditorialNegative ==
  <<
    "people", "faces", "hands", "bodies", "human presence", "cluttered",
    "busy background", "visual noise", "over-stylized", "maximalist", "text",
    "watermark", "logo", "brand name", "typography overlay", "distorted product",
    "hallucinated features", "multiple products", "wrong proportions", "flat lighting",
    "even lighting", "no shadows", "shadowless", "snapshot quality",
    "amateur photography", "phone camera", "commercial gloss", "product catalog feel",
    "stock photo", "illustration", "painting", "cartoon", "digital art",
    "AI appearance", "cinematic flare", "lens flare", "god rays", "light leaks", "neon",
    "gradients", "color splash", "trendy aesthetic", "surrealism", "fantasy", "sci-fi",
    "futuristic", "heavy color grading", "cross processing", "film emulation",
    "hyperreal", "plastic surfaces", "artificial shine", "bokeh", "tilt shift",
    "fisheye", "wide angle distortion", "blurry", "low quality", "jpeg artifacts",
    "noise"
  >>

buildEditorialPrompt(productName, interp) ==
  LET moodMod == buildMoodModifier(interp)
      materialHint == buildMaterialHint(interp, "editorial")
      backdrop == IF materialHint # << >>
                    THEN <<"architectural ">> \o materialHint \o <<" backdrop">>
                    ELSE <<"sculptural matte concrete or natural stone architectural backdrop">>
  IN  PromptPair(
        Sentences(<<<<"Editorial product photography of ", productName>>,
                    backdrop \o <<" with considered spatial composition">>>>
                  \o EditorialBase \o <<moodMod>>),
        join(Texts(EditorialNegative), ", "))

\* a bug: the builders number the pairs they hand out
PROMPT_BUILDERS_numbered(sceneType, productName, interp) ==
  LET pair == CASE sceneType = "studio" -> buildStudioPrompt(productName, interp)
                [] sceneType = "lifestyle" -> buildLifestylePrompt(productName, interp)
                [] sceneType = "editorial" -> buildEditorialPrompt(productName, interp)
  IN  [pair EXCEPT !.positive = Append(@, IF i = 0 THEN "first" ELSE "later")]

\* PROMPT_BUILDERS[sceneType](productName, interp)
PROMPT_BUILDERS(sceneType, productName, interp) ==
  CASE sceneType = "studio" -> buildStudioPrompt(productName, interp)
    [] sceneType = "lifestyle" -> buildLifestylePrompt(productName, interp)
    [] sceneType = "editorial" -> buildEditorialPrompt(productName, interp)

buildConsistencyPrefix ==
  join(<<<<"MULTI-SCENE CONSISTENCY: This is part of a multi-scene product shoot.">>,
         <<"Product must appear identical across all scenes: same proportions, same materials, same colors.">>,
         <<"Maintain consistent product scale and detail rendering.">>>>, " ") \o <<" ">>

\* what the brand step hands over
BusinessContextData(name, description, tone) ==
  [businessName |-> name, businessDescription |-> description, brandTone |-> tone]

\* businessContext is null: the brand step was skipped
NoContext == BusinessContextData(Null, Null, Null)

\* the parts of the brand guidance that are filled in
contextParts(bc) ==
  (IF bc.businessName # "" THEN <<<<"Brand: ", bc.businessName>>>> ELSE << >>) \o
  (IF bc.businessDescription # "" THEN <<<<"About: ", bc.businessDescription>>>> ELSE << >>) \o
  (IF bc.brandTone # "" THEN <<<<"Brand tone: ", bc.brandTone>>>> ELSE << >>)

\* the guidance appended to the positive prompt. The wizard's request carries
\* no brandContext, so no palette sentence follows it.
BrandGuidance(bc) ==
  IF bc = NoContext THEN << >>
  ELSE IF Len(contextParts(bc)) = 0 THEN << >>
  ELSE <<"\n\nBRAND CONTEXT (use only as subtle tonal guidance -- do NOT change lighting, composition, or scene structure): ">>
       \o join(contextParts(bc), ". ") \o <<".">>

\* a bug: the first scene of a batch goes without the directive
CompilePrompt_laterScenes(req, k) ==
  LET consistencyPrefix == IF Len(req.scenes) > 1 /\ k > 1 THEN buildConsistencyPrefix ELSE << >>
      rawPrompt == PROMPT_BUILDERS(req.scenes[k], req.product, req.interpretation)
  IN  PromptPair(consistencyPrefix \o rawPrompt.positive \o BrandGuidance(req.businessContext),
                 rawPrompt.negative)

\* a bug: the scenes after the first are compiled from the page's fallback
\* interpretation
CompilePrompt_ownInterpretation(req, k) ==
  LET consistencyPrefix == IF Len(req.scenes) > 1 THEN buildConsistencyPrefix ELSE << >>
      rawPrompt == PROMPT_BUILDERS(req.scenes[k], req.product,
                                   IF k > 1 THEN FallbackInterpretation ELSE req.interpretation)
  IN  PromptPair(consistencyPrefix \o rawPrompt.positive \o BrandGuidance(req.businessContext),
                 rawPrompt.negative)

\* the prompt generateScenes hands to the providers for scene k of the request
CompilePrompt(req, k) ==
  LET consistencyPrefix == IF Len(req.scenes) > 1 THEN buildConsistencyPrefix ELSE << >>
      rawPrompt == PROMPT_BUILDERS(req.scenes[k], req.product, req.interpretation)
  IN  PromptPair(consistencyPrefix \o rawPrompt.positive \o BrandGuidance(req.businessContext),
                 rawPrompt.negative)

\* ------------------------------------------------------------------------
\* Requests, notices and the initial state
\* ------------------------------------------------------------------------

Products == {"ceramic mug"}

Contexts == {BusinessContextData("Soleil Skincare", "", "calm")}

SceneGenerationRequest(p, scenes, text, interp, ctx) ==
  [product |-> p, scenes |-> scenes, moodText |-> text,
   interpretation |-> interp, businessContext |-> ctx]

NoRequest == SceneGenerationRequest(Null, << >>, << >>, NoInterpretation, NoContext)

\* one compilation: what was compiled and the prompt that came out
Compilation(req, k, pair) ==
  [sceneType |-> req.scenes[k], productName |-> req.product,
   interpretation |-> req.interpretation, businessContext |-> req.businessContext,
   multiScene |-> Len(req.scenes) > 1, prompt |-> pair]

NoCompilation ==
  [sceneType |-> Null, productName |-> Null, interpretation |-> NoInterpretation,
   businessContext |-> NoContext, multiScene |-> FALSE, prompt |-> NoPrompt]

NoCalls == [m \in 1..Len(modelsToTry) |-> 0]

Notice(code, message) == [code |-> code, message |-> message]

NoNotice == Notice("none", << >>)

\* no click on generate or skip
NoClick ==
  [clicked |-> FALSE, isLocalMode |-> FALSE, canGenerate |-> FALSE,
   isFreeTier |-> FALSE, apiKey |-> FALSE]

\* the step scores no candidate, sees no fallback error and is no click
NoProviderEvent == scored' = {} /\ pollinationsError' = NoError /\ asked' = NoClick

\* the step is a click on generate or skip, and hears from no provider
Clicked(isLocalMode, credits, freeTier, apiKey) ==
  /\ scored' = {}
  /\ pollinationsError' = NoError
  /\ asked' = [clicked |-> TRUE, isLocalMode |-> isLocalMode, canGenerate |-> credits,
               isFreeTier |-> freeTier, apiKey |-> apiKey]

\* the step shows no toast and hears from no provider
Quiet == notice' = NoNotice /\ NoProviderEvent

Init ==
  /\ step = "input"
  /\ product = Null
  /\ businessContext = NoContext
  /\ selectedScenes = << >>
  /\ moodText = << >>
  /\ interpretation = NoInterpretation
  /\ results = << >>
  /\ progressCurrent = 0
  /\ progressTotal = 0
  /\ progressScene = Null
  /\ notice = NoNotice
  /\ scored = {}
  /\ pollinationsError = NoError
  /\ asked = NoClick
  /\ request = NoRequest
  /\ genResults = << >>
  /\ i = 0
  /\ pc = "idle"
  /\ modelIdx = 0
  /\ attempt = 0
  /\ bestImage = NoImage
  /\ bestScore = -1
  /\ lastError = NoError
  /\ geminiError = NoError
  /\ geminiCalls = NoCalls
  /\ fallbackCalls = 0
  /\ prompt = NoPrompt
  /\ remembered = NoCompilation
  /\ lastSanitized = << >>

\* ------------------------------------------------------------------------
\* generateScenes: the orchestrator
\* ------------------------------------------------------------------------

GeneratedScene(sceneType, image, promptUsed, provider) ==
  [sceneType |-> sceneType, imageBase64 |-> image, promptUsed |-> promptUsed,
   provider |-> provider]

\* a bug: the new scene is put in front of the list
PushResult_front(rs, scene) == <<scene>> \o rs

\* results.push({...})
PushResult(rs, scene) == Append(rs, scene)

\* geminiError?.message || 'Unknown error'
MessageOf(err) == IF err = NoError THEN <<"Unknown error">> ELSE err

\* the advice for a primary error that reads like a rejected key
AuthAdvice ==
  "Your Gemini API key may be invalid or lack image generation access. Ensure it supports Gemini 3 Pro Image or Gemini 2.5 Flash Image."

\* the advice for a primary error that reads like an exhausted quota
QuotaAdvice == "Gemini rate limit reached. Wait a moment and try again."

\* a bug: the fallback's message is left out of the aggregate
HelpText_noFallback(sceneType, geminiMsg, pollMsg) ==
  <<"Failed to generate ", sceneType, " scene.\n">> \o
  ( IF Includes(geminiMsg, "API key") \/ Includes(geminiMsg, "401")
       \/ Includes(geminiMsg, "403")
      THEN <<AuthAdvice>>
    ELSE IF Includes(geminiMsg, "quota") \/ Includes(geminiMsg, "429")
      THEN <<QuotaAdvice>>
    ELSE <<"Gemini: ">> \o geminiMsg )

\* the text of the error thrown when both providers failed for a scene
HelpText(sceneType, geminiMsg, pollMsg) ==
  <<"Failed to generate ", sceneType, " scene.\n">> \o
  ( IF Includes(geminiMsg, "API key") \/ Includes(geminiMsg, "401")
       \/ Includes(geminiMsg, "403")
      THEN <<AuthAdvice>>
    ELSE IF Includes(geminiMsg, "quota") \/ Includes(geminiMsg, "429")
      THEN <<QuotaAdvice>>
    ELSE <<"Gemini: ">> \o geminiMsg \o <<". Pollinations: ">> \o pollMsg )

\* a bug: the progress callback counts the scenes from zero
BeginScene_zeroBased(k, scenes) ==
  /\ i' = k
  /\ progressCurrent' = k - 1
  /\ progressTotal' = Len(scenes)
  /\ progressScene' = scenes[k]
  /\ pc' = "gemini"
  /\ modelIdx' = 1
  /\ attempt' = 0
  /\ bestImage' = NoImage
  /\ bestScore' = -1
  /\ lastError' = NoError
  /\ geminiError' = NoError
  /\ geminiCalls' = [NoCalls EXCEPT ![1] = 1]
  /\ fallbackCalls' = 0
  /\ prompt' = CompilePrompt(request', k)
  /\ UNCHANGED historyVars

\* the loop body up to the first await: progress callback, the scene's
\* prompt, then the first attempt of the first model for scene k
BeginScene(k, scenes) ==
  /\ i' = k
  /\ progressCurrent' = k
  /\ progressTotal' = Len(scenes)
  /\ progressScene' = scenes[k]
  /\ pc' = "gemini"
  /\ modelIdx' = 1
  /\ attempt' = 0
  /\ bestImage' = NoImage
  /\ bestScore' = -1
  /\ lastError' = NoError
  /\ geminiError' = NoError
  /\ geminiCalls' = [NoCalls EXCEPT ![1] = 1]
  /\ fallbackCalls' = 0
  /\ prompt' = CompilePrompt(request', k)
  /\ UNCHANGED historyVars

\* nothing of generateScenes is left running
BatchOver ==
  /\ request' = NoRequest
  /\ genResults' = << >>
  /\ i' = 0
  /\ pc' = "idle"
  /\ modelIdx' = 0
  /\ attempt' = 0
  /\ bestImage' = NoImage
  /\ bestScore' = -1
  /\ lastError' = NoError
  /\ geminiError' = NoError
  /\ geminiCalls' = NoCalls
  /\ fallbackCalls' = 0
  /\ prompt' = NoPrompt
  /\ UNCHANGED historyVars

\* generateScenes returned `generated`: the rest of handleGenerate's try block.
\* recordGeneration touches nothing this model carries; its awaits are folded
\* into this step.
GenerationReturned(generated, seen) ==
  /\ results' = generated
  /\ scored' = seen
  /\ pollinationsError' = NoError
  /\ asked' = NoClick
  /\ step' = "results"
  /\ notice' = Notice("success", <<"Scene photography generated!">>)
  /\ BatchOver
  /\ UNCHANGED <<product, businessContext, selectedScenes, moodText,
                 interpretation, progressVars>>

\* the image of scene i is there: push it, then the next scene or return
SceneDone(image, provider, seen) ==
  LET generated == PushResult(genResults, GeneratedScene(request.scenes[i], image, prompt.positive, provider))
  IN  IF i < Len(request.scenes)
        THEN /\ genResults' = generated
             /\ UNCHANGED <<wizardVars, request>>
             /\ BeginScene(i + 1, request.scenes)
             /\ notice' = NoNotice
             /\ scored' = seen
             /\ pollinationsError' = NoError
             /\ asked' = NoClick
        ELSE GenerationReturned(generated, seen)

\* MoodInput mounts: if (!interpretation) onInterpretationChange(interpretMood('', selectedScenes))
MoodMounted(interp, scenes) ==
  IF interp = NoInterpretation THEN getDefaultInterpretation(<< >>, scenes) ELSE interp

\* generateScenes threw `err`: handleGenerate's catch block
GenerationFailed(err) ==
  /\ notice' = Notice("scene/generation-failed", err)
  /\ scored' = {}
  /\ step' = "mood"
  /\ interpretation' = MoodMounted(interpretation, selectedScenes)
  /\ BatchOver
  /\ UNCHANGED <<product, businessContext, selectedScenes, moodText,
                 results, progressVars>>

\* a bug: the failed scene is skipped and the batch goes on
AllProvidersFailed_skip(err) ==
  /\ pollinationsError' = err
  /\ asked' = NoClick
  /\ notice' = NoNotice
  /\ scored' = {}
  /\ IF i < Len(request.scenes)
       THEN /\ UNCHANGED <<wizardVars, request, genResults>>
            /\ BeginScene(i + 1, request.scenes)
       ELSE /\ results' = genResults
            /\ step' = "results"
            /\ BatchOver
            /\ UNCHANGED <<product, businessContext, selectedScenes, moodText,
                           interpretation, progressVars>>

\* both providers failed for scene i
AllProvidersFailed(err) ==
  /\ pollinationsError' = err
  /\ asked' = NoClick
  /\ GenerationFailed(HelpText(request.scenes[i], MessageOf(geminiError), MessageOf(err)))

\* the cascade goes on, returns an image, or throws into the fallback
ApplyOutcome(o) ==
  CASE o.kind = "call" ->
         /\ modelIdx' = o.modelIdx
         /\ attempt' = o.attempt
         /\ bestImage' = o.bestImage
         /\ bestScore' = o.bestScore
         /\ lastError' = o.error
         /\ geminiCalls' = [geminiCalls EXCEPT ![o.modelIdx] = @ + 1]
         /\ notice' = NoNotice
         /\ scored' = o.seen
         /\ pollinationsError' = NoError
         /\ asked' = NoClick
         /\ UNCHANGED <<wizardVars, progressVars, batchVars, fallbackCalls, historyVars>>
    [] o.kind = "return" -> SceneDone(o.image, "gemini", o.seen)
    [] o.kind = "throw" ->
         /\ geminiError' = o.error
         /\ pc' = "pollinations"
         /\ fallbackCalls' = fallbackCalls + 1
         /\ modelIdx' = 0
         /\ attempt' = 0
         /\ bestImage' = NoImage
         /\ bestScore' = -1
         /\ lastError' = NoError
         /\ notice' = NoNotice
         /\ scored' = o.seen
         /\ pollinationsError' = NoError
         /\ asked' = NoClick
         /\ UNCHANGED <<wizardVars, progressVars, request, genResults, i, prompt, geminiCalls,
                        historyVars>>

\* ai.models.generateContent resolves
GeminiRespond(parts) ==
  /\ pc = "gemini"
  /\ ApplyOutcome(OnGeminiResponse(modelIdx, attempt, bestImage, bestScore, lastError, parts))

\* ai.models.generateContent rejects
GeminiThrow(err) ==
  /\ pc = "gemini"
  /\ ApplyOutcome(OnGeminiError(modelIdx, bestImage, bestScore, err))

\* a bug: the fallback's image is filed under the primary provider
PollinationsRespond_asGemini(image) ==
  /\ pc = "pollinations"
  /\ SceneDone(image, "gemini", {})

\* the Pollinations fetch resolves and the blob is read
PollinationsRespond(image) ==
  /\ pc = "pollinations"
  /\ SceneDone(image, "pollinations", {})

\* the Pollinations fetch rejects, times out or is not ok
PollinationsThrow(err) ==
  /\ pc = "pollinations"
  /\ AllProvidersFailed(err)

\* ------------------------------------------------------------------------
\* PhotoStudioPage: the wizard's handlers
\* ------------------------------------------------------------------------

handleProductConfirm(p) ==
  /\ step = "input"
  /\ product' = p
  /\ step' = "context"
  /\ Quiet
  /\ UNCHANGED <<businessContext, selectedScenes, moodText, interpretation,
                 results, progressVars, cascadeVars, batchVars, callVars, historyVars>>

handleContextConfirm(ctx) ==
  /\ step = "context"
  /\ businessContext' = ctx
  /\ step' = "scenes"
  /\ Quiet
  /\ UNCHANGED <<product, selectedScenes, moodText, interpretation,
                 results, progressVars, cascadeVars, batchVars, callVars, historyVars>>

handleContextSkip ==
  /\ step = "context"
  /\ businessContext' = NoContext
  /\ step' = "scenes"
  /\ Quiet
  /\ UNCHANGED <<product, selectedScenes, moodText, interpretation,
                 results, progressVars, cascadeVars, batchVars, callVars, historyVars>>

\* onBack of the context, scenes and mood steps
GoBack ==
  /\ step \in {"context", "scenes", "mood"}
  /\ step' = CASE step = "context" -> "input"
               [] step = "scenes" -> "context"
               [] step = "mood" -> "scenes"
  /\ Quiet
  /\ UNCHANGED <<product, businessContext, selectedScenes, moodText,
                 interpretation, results, progressVars, cascadeVars, batchVars, callVars, historyVars>>

\* selectedScenes.filter(s => s !== sceneType)
Without(scenes, sceneType) == SelectSeq(scenes, LAMBDA s : s # sceneType)

\* a bug: a click on a selected card selects it once more
handleToggle_again(sceneType) ==
  /\ step = "scenes"
  /\ selectedScenes' =
       IF Len(selectedScenes) < MAX_SCENES THEN Append(selectedScenes, sceneType)
       ELSE Without(selectedScenes, sceneType)
  /\ Quiet
  /\ UNCHANGED <<step, product, businessContext, moodText, interpretation,
                 results, progressVars, cascadeVars, batchVars, callVars, historyVars>>

\* SceneSelector.handleToggle
handleToggle(sceneType) ==
  /\ step = "scenes"
  /\ selectedScenes' =
       IF includes(selectedScenes, sceneType) THEN Without(selectedScenes, sceneType)
       ELSE IF Len(selectedScenes) < MAX_SCENES THEN Append(selectedScenes, sceneType)
       ELSE selectedScenes
  /\ Quiet
  /\ UNCHANGED <<step, product, businessContext, moodText, interpretation,
                 results, progressVars, cascadeVars, batchVars, callVars, historyVars>>

handleScenesConfirm ==
  /\ step = "scenes"
  /\ IF Len(selectedScenes) = 0
       THEN /\ notice' = Notice("scene/no-scenes-selected", << >>)
            /\ NoProviderEvent
            /\ UNCHANGED <<step, interpretation>>
       ELSE /\ step' = "mood"
            /\ interpretation' = MoodMounted(interpretation, selectedScenes)
            /\ Quiet
  /\ UNCHANGED <<product, businessContext, selectedScenes, moodText,
                 results, progressVars, cascadeVars, batchVars, callVars, historyVars>>

\* a bug: the free-tier gate is asked in local mode instead of cloud mode
handleGenerate_freeTierPasses(isLocalMode, credits, freeTier, apiKey) ==
  IF product = Null \/ Len(selectedScenes) = 0
    THEN /\ notice' = NoNotice /\ Clicked(isLocalMode, credits, freeTier, apiKey)
         /\ UNCHANGED <<step, product, businessContext, selectedScenes, results,
                        progressVars, cascadeVars, batchVars, callVars, historyVars>>
  ELSE IF ~isLocalMode /\ ~credits
    THEN /\ notice' = Notice("payment/insufficient-credits",
                             <<"You need credits to generate scenes. Purchase credits to continue.">>)
         /\ Clicked(isLocalMode, credits, freeTier, apiKey)
         /\ UNCHANGED <<step, product, businessContext, selectedScenes, results,
                        progressVars, cascadeVars, batchVars, callVars, historyVars>>
  ELSE IF isLocalMode /\ freeTier
    THEN /\ notice' = Notice("payment/insufficient-credits",
                             <<"Photo Studio requires credits. Purchase credits to access scene generation.">>)
         /\ Clicked(isLocalMode, credits, freeTier, apiKey)
         /\ UNCHANGED <<step, product, businessContext, selectedScenes, results,
                        progressVars, cascadeVars, batchVars, callVars, historyVars>>
  ELSE IF ~apiKey
    THEN /\ notice' = Notice("api/key-not-found", << >>)
         /\ Clicked(isLocalMode, credits, freeTier, apiKey)
         /\ UNCHANGED <<step, product, businessContext, selectedScenes, results,
                        progressVars, cascadeVars, batchVars, callVars, historyVars>>
  ELSE /\ step' = "generating"
       /\ request' = SceneGenerationRequest(product, selectedScenes, moodText,
                       IF interpretation = NoInterpretation THEN FallbackInterpretation
                       ELSE interpretation,
                       businessContext)
       /\ genResults' = << >>
       /\ BeginScene(1, selectedScenes)
       /\ notice' = NoNotice /\ Clicked(isLocalMode, credits, freeTier, apiKey)
       /\ UNCHANGED <<product, businessContext, selectedScenes, results>>

\* handleGenerate up to its first await, as the closure of the last render
\* sees the state; the isLocalMode prop, canGenerate(), isFreeTier() and the
\* stored API key are what the page is given at that moment
handleGenerate(isLocalMode, credits, freeTier, apiKey) ==
  IF product = Null \/ Len(selectedScenes) = 0
    THEN /\ notice' = NoNotice /\ Clicked(isLocalMode, credits, freeTier, apiKey)
         /\ UNCHANGED <<step, product, businessContext, selectedScenes, results,
                        progressVars, cascadeVars, batchVars, callVars, historyVars>>
  ELSE IF ~isLocalMode /\ ~credits
    THEN /\ notice' = Notice("payment/insufficient-credits",
                             <<"You need credits to generate scenes. Purchase credits to continue.">>)
         /\ Clicked(isLocalMode, credits, freeTier, apiKey)
         /\ UNCHANGED <<step, product, businessContext, selectedScenes, results,
                        progressVars, cascadeVars, batchVars, callVars, historyVars>>
  ELSE IF ~isLocalMode /\ freeTier
    THEN /\ notice' = Notice("payment/insufficient-credits",
                             <<"Photo Studio requires credits. Purchase credits to access scene generation.">>)
         /\ Clicked(isLocalMode, credits, freeTier, apiKey)
         /\ UNCHANGED <<step, product, businessContext, selectedScenes, results,
                        progressVars, cascadeVars, batchVars, callVars, historyVars>>
  ELSE IF ~apiKey
    THEN /\ notice' = Notice("api/key-not-found", << >>)
         /\ Clicked(isLocalMode, credits, freeTier, apiKey)
         /\ UNCHANGED <<step, product, businessContext, selectedScenes, results,
                        progressVars, cascadeVars, batchVars, callVars, historyVars>>
  ELSE /\ step' = "generating"
       /\ request' = SceneGenerationRequest(product, selectedScenes, moodText,
                       IF interpretation = NoInterpretation THEN FallbackInterpretation
                       ELSE interpretation,
                       businessContext)
       /\ genResults' = << >>
       /\ BeginScene(1, selectedScenes)
       /\ notice' = NoNotice /\ Clicked(isLocalMode, credits, freeTier, apiKey)
       /\ UNCHANGED <<product, businessContext, selectedScenes, results>>

\* the GENERATE SCENES button of the mood step
Generate(isLocalMode, credits, freeTier, apiKey) ==
  /\ step = "mood"
  /\ handleGenerate(isLocalMode, credits, freeTier, apiKey)
  /\ UNCHANGED <<moodText, interpretation>>

\* MoodInput.handleSkip: clears the mood, then runs onConfirm, which is the
\* handleGenerate of the render the click happened in
handleSkip(isLocalMode, credits, freeTier, apiKey) ==
  /\ step = "mood"
  /\ moodText' = << >>
  /\ interpretation' = getDefaultInterpretation(<< >>, selectedScenes)
  /\ handleGenerate(isLocalMode, credits, freeTier, apiKey)

handleStartOver ==
  /\ step = "results"
  /\ step' = "input"
  /\ product' = Null
  /\ businessContext' = NoContext
  /\ selectedScenes' = << >>
  /\ moodText' = << >>
  /\ interpretation' = NoInterpretation
  /\ results' = << >>
  /\ progressCurrent' = 0
  /\ progressTotal' = 0
  /\ progressScene' = Null
  /\ Quiet
  /\ UNCHANGED <<cascadeVars, batchVars, callVars, historyVars>>

Next ==
  \/ \E p \in Products : handleProductConfirm(p)
  \/ \E ctx \in Contexts : handleContextConfirm(ctx)
  \/ handleContextSkip
  \/ GoBack
  \/ \E sceneType \in SceneType : handleToggle(sceneType)
  \/ handleScenesConfirm
  \/ \E isLocalMode, credits, freeTier, apiKey \in BOOLEAN : Generate(isLocalMode, credits, freeTier, apiKey)
  \/ \E isLocalMode, credits, freeTier, apiKey \in BOOLEAN : handleSkip(isLocalMode, credits, freeTier, apiKey)
  \/ handleStartOver
  \/ \E parts \in GeminiResponses : GeminiRespond(parts)
  \/ \E err \in GeminiErrors : GeminiThrow(err)
  \/ \E image \in PollinationsImages : PollinationsRespond(image)
  \/ \E err \in PollinationsErrors : PollinationsThrow(err)

Spec == Init /\ [][Next]_vars

\* fetch(imageUrl, { signal: AbortSignal.timeout(60000) }): a request of the
\* fallback that is still pending after 60 s is aborted by the signal and
\* the await throws
FetchTimesOut == PollinationsThrow(<<"The operation timed out.">>)

\* the pipeline with the timers the code sets: the fallback's fetch carries
\* one, ai.models.generateContent is called with the model, the contents and
\* the response modalities and carries none, so nothing makes a pending
\* primary call settle
SpecTimed == Spec /\ WF_vars(FetchTimesOut)

\* ------------------------------------------------------------------------
\* The mood step on its own: a typed text, then the debounce timer
\* ------------------------------------------------------------------------

\* the wizard at the mood step: MoodInput has mounted, a text has been typed
\* and its timer is pending
InitMood ==
  /\ step = "mood"
  /\ product \in Products
  /\ businessContext = NoContext
  /\ selectedScenes \in SceneLists
  /\ moodText \in MoodTexts
  /\ interpretation = getDefaultInterpretation(<< >>, selectedScenes)
  /\ results = << >>
  /\ progressCurrent = 0
  /\ progressTotal = 0
  /\ progressScene = Null
  /\ notice = NoNotice
  /\ scored = {}
  /\ pollinationsError = NoError
  /\ asked = NoClick
  /\ request = NoRequest
  /\ genResults = << >>
  /\ i = 0
  /\ pc = "idle"
  /\ modelIdx = 0
  /\ attempt = 0
  /\ bestImage = NoImage
  /\ bestScore = -1
  /\ lastError = NoError
  /\ geminiError = NoError
  /\ geminiCalls = NoCalls
  /\ fallbackCalls = 0
  /\ prompt = NoPrompt
  /\ remembered = NoCompilation
  /\ lastSanitized = << >>

\* MoodInput's timer fires: onInterpretationChange(interpretMood(moodText, selectedScenes))
DebounceFired ==
  /\ step = "mood"
  /\ interpretation' = interpretMood(moodText, selectedScenes)
  /\ lastSanitized' = sanitizeInput(moodText)
  /\ Quiet
  /\ UNCHANGED <<step, product, businessContext, selectedScenes, moodText, results,
                 progressVars, cascadeVars, batchVars, callVars, remembered>>

NextMood == DebounceFired

\* the longest raw text interpretMood is called with
MaxRawLen == 260

\* what the raw texts are made of
RawUnits ==
  {
    <<"w", "a", "r", "m", " ", "c", "o", "z", "y", " ">>,
    <<"a">>,
    <<"N", "i", "k", "e", " ", "8", "k", " ", "l", "u", "x", "u", "r", "y", " ", "o", "a", "k", " ">>,
    <<"U+2600", " ", "h", "t", "t", "p", "s", ":", "/", "/", "a", ".", "i", "o", "\t", "D", "r", "a", "m", "a", "t", "i", "c", ",">>,
    <<" ", " ", "x">>,
    <<"s", "h", "a", "d", "o", "w", "-", "4", "k", "\n">>
  }

\* the first len characters of unit, unit, unit, ...
Filled(unit, len) == [k \in 1..len |-> unit[((k - 1) % Len(unit)) + 1]]

\* raw texts up to, at and beyond the sanitizer's cap
RawTexts ==
  {Filled(unit, len) : unit \in RawUnits,
                       len \in {0, 1, MAX_MOOD_CHARS - 1, MAX_MOOD_CHARS, MAX_MOOD_CHARS + 1,
                                MaxRawLen}}

\* interpretMood is exported: a caller other than the mood step's text box,
\* which stops at 200 characters, hands it a raw text of any length
InitRaw ==
  /\ step = "mood"
  /\ product \in Products
  /\ businessContext = NoContext
  /\ selectedScenes \in {<<"studio">>, <<"lifestyle">>, <<"editorial", "studio">>}
  /\ moodText \in RawTexts
  /\ interpretation = getDefaultInterpretation(<< >>, selectedScenes)
  /\ results = << >>
  /\ progressCurrent = 0
  /\ progressTotal = 0
  /\ progressScene = Null
  /\ notice = NoNotice
  /\ scored = {}
  /\ pollinationsError = NoError
  /\ asked = NoClick
  /\ request = NoRequest
  /\ genResults = << >>
  /\ i = 0
  /\ pc = "idle"
  /\ modelIdx = 0
  /\ attempt = 0
  /\ bestImage = NoImage
  /\ bestScore = -1
  /\ lastError = NoError
  /\ geminiError = NoError
  /\ geminiCalls = NoCalls
  /\ fallbackCalls = 0
  /\ prompt = NoPrompt
  /\ remembered = NoCompilation
  /\ lastSanitized = << >>

SpecRaw == InitRaw /\ [][NextMood]_vars

\* ------------------------------------------------------------------------
\* generateScenes' compiler, batch after batch
\* ------------------------------------------------------------------------

\* interpretations that differ in the fields the builders read and in those
\* they do not
PromptInterpretations ==
  {MoodInterpretation("neutral", "moderate", "none", "soft diffused", << >>, FALSE, << >>),
   MoodInterpretation("cool", "vibrant", "none", "soft diffused", << >>, FALSE, << >>),
   MoodInterpretation("warm", "calm", "none", "soft diffused", << >>, FALSE, << >>),
   MoodInterpretation("warm", "calm", "marble", "soft diffused", << >>, FALSE, << >>),
   MoodInterpretation("warm", "calm", "marble", "directional", << >>, FALSE, << >>),
   MoodInterpretation("warm", "calm", "marble", "soft diffused", <<"o", "a", "k">>, FALSE, << >>),
   MoodInterpretation("warm", "calm", "marble", "soft diffused", << >>, TRUE,
                      <<<<"Lifestyle: ", "directional light", " -> \"soft diffused\"">>>>),
   MoodInterpretation("warm", "calm", "fabric", "golden hour", << >>, FALSE, << >>),
   getDefaultInterpretation(<< >>, <<"studio">>),
   getDefaultInterpretation(<< >>, <<"editorial">>)}

\* the requests of the batches: every interpretation for every selection,
\* and some with a brand and with another product
PromptRequests ==
  LET selections == {<<"studio">>, <<"editorial">>, <<"lifestyle", "studio">>,
                     <<"studio", "editorial", "lifestyle">>}
      withBrand == {interp \in PromptInterpretations : interp.materialBias = "none"}
  IN  {SceneGenerationRequest("ceramic mug", scenes, interp.rawInput, interp, NoContext) :
         scenes \in selections, interp \in PromptInterpretations}
      \cup {SceneGenerationRequest("ceramic mug", scenes, interp.rawInput, interp, ctx) :
               scenes \in selections, interp \in withBrand, ctx \in Contexts}
      \cup {SceneGenerationRequest("linen shirt", scenes, interp.rawInput, interp, NoContext) :
               scenes \in selections, interp \in withBrand}

\* generateScenes has been called with a request and is about to enter its loop
InitPrompt ==
  /\ step = "generating"
  /\ request \in PromptRequests
  /\ product = request.product
  /\ businessContext = request.businessContext
  /\ selectedScenes = request.scenes
  /\ moodText = request.moodText
  /\ interpretation = request.interpretation
  /\ results = << >>
  /\ progressCurrent = 0
  /\ progressTotal = 0
  /\ progressScene = Null
  /\ notice = NoNotice
  /\ scored = {}
  /\ pollinationsError = NoError
  /\ asked = NoClick
  /\ genResults = << >>
  /\ i = 0
  /\ pc = "idle"
  /\ modelIdx = 0
  /\ attempt = 0
  /\ bestImage = NoImage
  /\ bestScore = -1
  /\ lastError = NoError
  /\ geminiError = NoError
  /\ geminiCalls = NoCalls
  /\ fallbackCalls = 0
  /\ prompt = NoPrompt
  /\ remembered = NoCompilation
  /\ lastSanitized = << >>

\* the loop body for the next scene, as far as the prompt: progress
\* callback, builder, consistency prefix, brand guidance. The compilation
\* may be the one that is remembered.
CompileScene ==
  /\ i < Len(request.scenes)
  /\ i' = i + 1
  /\ progressCurrent' = i + 1
  /\ progressTotal' = Len(request.scenes)
  /\ progressScene' = request.scenes[i + 1]
  /\ prompt' = CompilePrompt(request, i + 1)
  /\ remembered' \in {remembered, Compilation(request, i + 1, prompt')}
  /\ Quiet
  /\ UNCHANGED <<wizardVars, cascadeVars, request, genResults, pc, geminiError, callVars,
                 lastSanitized>>

\* the batch is through, and the page calls generateScenes with another request
NextRequest(req) ==
  /\ i = Len(request.scenes)
  /\ request' = req
  /\ product' = req.product
  /\ businessContext' = req.businessContext
  /\ selectedScenes' = req.scenes
  /\ moodText' = req.moodText
  /\ interpretation' = req.interpretation
  /\ i' = 0
  /\ prompt' = NoPrompt
  /\ progressCurrent' = 0
  /\ progressTotal' = 0
  /\ progressScene' = Null
  /\ Quiet
  /\ UNCHANGED <<step, results, cascadeVars, genResults, pc, geminiError, callVars,
                 historyVars>>

NextPrompt ==
  \/ CompileScene
  \/ \E req \in PromptRequests : NextRequest(req)

SpecPrompt == InitPrompt /\ [][NextPrompt]_vars

SpecMood == InitMood /\ [][NextMood]_vars

\* ------------------------------------------------------------------------
\* The wizard up to the call of generateScenes: typing, the debounce timer,
\* going back, and the clicks on generate and skip
\* ------------------------------------------------------------------------

\* the longest text typed while the clicks are studied
MaxTypedLen == 9

\* the textarea's onChange: onMoodChange(e.target.value), which is setMoodText;
\* the effect clears the pending timer and sets a new one
onMoodChange(text) ==
  /\ step = "mood"
  /\ moodText' = text
  /\ Quiet
  /\ UNCHANGED <<step, product, businessContext, selectedScenes, interpretation,
                 results, progressVars, cascadeVars, batchVars, callVars, historyVars>>

\* the page has credits and a key: every click on generate or skip gets
\* past handleGenerate's gates
SpecClick ==
  /\ Init
  /\ [][\/ \E p \in Products : handleProductConfirm(p)
        \/ \E ctx \in Contexts : handleContextConfirm(ctx)
        \/ handleContextSkip
        \/ GoBack
        \/ \E sceneType \in SceneType : handleToggle(sceneType)
        \/ handleScenesConfirm
        \/ \E text \in {t \in MoodTexts : Len(t) <= MaxTypedLen} : onMoodChange(text)
        \/ DebounceFired
        \/ \E isLocalMode \in BOOLEAN : Generate(isLocalMode, TRUE, FALSE, TRUE)
        \/ \E isLocalMode \in BOOLEAN : handleSkip(isLocalMode, TRUE, FALSE, TRUE)]_vars

\* ------------------------------------------------------------------------
\* Properties
\* ------------------------------------------------------------------------

Score(image) == validateImageQuality(image).score

\* the scene generateScenes produced last: in the list it returned, or in
\* the list it is still building
HasProduced == IF step = "results" THEN Len(results) > 0 ELSE Len(genResults) > 0

LastProduced ==
  IF step = "results" THEN results[Len(results)] ELSE genResults[Len(genResults)]

\* C1: when generateScenes returns, the list it hands to the caller has one
\* entry per requested scene, and entry k is the scene requested k-th,
\* whichever provider produced each image.
C1_OnePerSceneInOrder ==
  [][ (step = "generating" /\ step' = "results") =>
        /\ Len(results') = Len(request.scenes)
        /\ \A k \in 1..Len(request.scenes) : results'[k].sceneType = request.scenes[k]
    ]_vars

\* C1 happens: a returned batch of three scenes, images of both providers
C1_Witness ==
  /\ step = "results"
  /\ Len(results) = 3
  /\ \E j, k \in 1..3 : results[j].provider = "gemini" /\ results[k].provider = "pollinations"

\* C2: when the fallback fails too for scene i, the batch ends in one error:
\* nothing of the orchestrator is left running (no call, no progress
\* callback for a later scene), the caller gets no scene, not even those
\* produced before i, and the wizard is back at the mood step with its
\* results as they were.
C2_BatchFailsAsAWhole ==
  [][ pollinationsError' # NoError =>
        /\ pc = "pollinations"
        /\ notice'.code = "scene/generation-failed"
        /\ pc' = "idle" /\ i' = 0 /\ genResults' = << >>
        /\ geminiCalls' = NoCalls /\ fallbackCalls' = 0
        /\ UNCHANGED progressVars
        /\ step' = "mood"
        /\ results' = results /\ results' = << >>
    ]_vars

\* C2 happens: the batch failed at its second scene, after the first was produced
C2_Witness ==
  /\ notice.code = "scene/generation-failed"
  /\ pollinationsError # NoError
  /\ Len(selectedScenes) >= 2
  /\ notice.message[2] = selectedScenes[2]
  /\ step = "mood"
  /\ results = << >>

\* the step before this state produced `image` for a scene through the
\* primary provider, and whatever call is pending now is the first call of
\* the next scene
JustReturned(image) ==
  /\ HasProduced
  /\ LastProduced.imageBase64 = image
  /\ LastProduced.provider = "gemini"
  /\ \/ step = "results" /\ pc = "idle"
     \/ /\ pc = "gemini"
        /\ Len(genResults) = i - 1
        /\ geminiCalls = [NoCalls EXCEPT ![1] = 1]
        /\ fallbackCalls = 0

\* C3: a candidate whose score reaches 60 is returned for its scene by the
\* very step that scored it: no retry of the model, no later model and no
\* fallback call follows for that scene.
C3_AcceptedAtOnce ==
  \A c \in scored : Score(c) >= 60 => JustReturned(c)

\* C3 happens: a candidate of score 60 or more was returned for the first
\* scene of a batch that goes on with its second scene
C3_Witness ==
  /\ \E c \in scored : Score(c) >= 60
  /\ step = "generating"
  /\ Len(genResults) = 1

\* C4: for the scene in progress every model was called at most twice, the
\* models were called in the order of modelsToTry (a model only after all
\* models before it), the fallback at most once: at most 3*2+1 calls.
C4_BoundedAttempts ==
  /\ \A m \in 1..3 : geminiCalls[m] \in 0..2
  /\ \A m \in 2..3 : geminiCalls[m] > 0 => geminiCalls[m - 1] > 0
  /\ pc = "gemini" =>
       /\ geminiCalls[modelIdx] = attempt + 1
       /\ \A m \in 1..3 : m > modelIdx => geminiCalls[m] = 0
  /\ fallbackCalls \in 0..1
  /\ fallbackCalls = 1 => \A m \in 1..3 : geminiCalls[m] > 0
  /\ geminiCalls[1] + geminiCalls[2] + geminiCalls[3] + fallbackCalls <= 3 * 2 + 1
  /\ modelsToTry[1] = "gemini-3-pro-image-preview"

\* C4 happens: a scene used all seven calls
C4_Witness ==
  /\ \A m \in 1..3 : geminiCalls[m] = 2
  /\ fallbackCalls = 1

\* the candidates of the attempts of the model in progress that came before
\* the pending one (there is at most one such attempt)
EarlierCandidates == IF attempt = 0 THEN {} ELSE scored

MaxScore(images) ==
  IF images = {} THEN -1
  ELSE CHOOSE x \in {Score(c) : c \in images} : \A c \in images : Score(c) <= x

\* the step ends the attempts of the model in progress
ModelEnds ==
  /\ pc = "gemini"
  /\ ~(pc' = "gemini" /\ i' = i /\ modelIdx' = modelIdx /\ attempt' = attempt + 1)
  /\ geminiCalls' # geminiCalls

\* C5: when the attempts of a model end with no candidate at 60 or more, the
\* next model (after the last one, the fallback) is tried exactly when there
\* is no candidate or the best one scores under 30; otherwise a best-scoring
\* candidate of this model's attempts is the image of the scene.
C5_BestIsRetained ==
  [][ LET cands == EarlierCandidates \cup scored'
          best == MaxScore(cands)
          produced == IF step' = "results" THEN results'[Len(results')]
                      ELSE genResults'[Len(genResults')]
      IN  (ModelEnds /\ \A c \in cands : Score(c) < 60) =>
            IF cands = {} \/ best < 30
              THEN /\ i' = i /\ genResults' = genResults /\ step' = "generating"
                   /\ \/ modelIdx < 3 /\ pc' = "gemini" /\ modelIdx' = modelIdx + 1
                                      /\ attempt' = 0
                      \/ modelIdx = 3 /\ pc' = "pollinations"
              ELSE /\ \/ step' = "results"
                      \/ step' = "generating" /\ i' = i + 1 /\ Len(genResults') = i
                   /\ produced.sceneType = request.scenes[i]
                   /\ produced.provider = "gemini"
                   /\ produced.imageBase64 \in cands
                   /\ Score(produced.imageBase64) = best
    ]_vars

\* C5 happens: a scene keeps a candidate of score 40 after a second attempt
\* that scored less
C5_Witness ==
  /\ step = "generating"
  /\ Len(genResults) = 1
  /\ genResults[1].provider = "gemini"
  /\ Score(genResults[1].imageBase64) = 40
  /\ \E c \in scored : Score(c) = 20

\* C6: while the fallback is awaited every model of the cascade has been
\* called and the scene has no image; a scene fails only in the step in which
\* the awaited fallback raises; and the provider of a scene is the provider
\* its image came from.
C6_FallbackLast ==
  [][ /\ pc' = "pollinations" =>
           /\ \A m \in 1..3 : geminiCalls'[m] >= 1
           /\ fallbackCalls' = 1
           /\ Len(genResults') = i' - 1
           /\ geminiError' # NoError
      /\ fallbackCalls' > fallbackCalls => pc = "gemini" /\ modelIdx = 3
      /\ notice'.code = "scene/generation-failed" =>
           pc = "pollinations" /\ fallbackCalls = 1 /\ pollinationsError' # NoError
      /\ \A k \in 1..Len(genResults') :
           genResults'[k].provider = genResults'[k].imageBase64.origin
      /\ \A k \in 1..Len(results') :
           results'[k].provider = results'[k].imageBase64.origin
    ]_vars

\* C6 happens: a scene produced by the fallback after the whole cascade
C6_Witness ==
  /\ step = "results"
  /\ \E k \in 1..Len(results) :
       /\ results[k].provider = "pollinations"
       /\ results[k].imageBase64.origin = "pollinations"

\* msg has the pieces of part, in a row
HasPieces(msg, part) ==
  \E k \in 0..(Len(msg) - Len(part)) :
    \A j \in 1..Len(part) : msg[k + j] = part[j]

\* the substrings generateScenes looks for in the primary error
IsAuthMessage(msg) == \E k \in 1..Len(msg) : msg[k] \in {"API key", "401", "403"}

IsQuotaMessage(msg) == \E k \in 1..Len(msg) : msg[k] \in {"quota", "429"}

\* C7 as claimed: the error of a failed batch carries the last primary error
\* and the fallback error, whatever the class of the primary error.
C7_AlwaysAggregates ==
  [][ notice'.code = "scene/generation-failed" =>
        /\ HasPieces(notice'.message, MessageOf(geminiError))
        /\ HasPieces(notice'.message, MessageOf(pollinationsError'))
    ]_vars

\* C7 as amended: the error of a failed batch names the failed scene; it
\* carries the last primary error and the fallback error when the primary
\* error is neither an auth nor a quota error, and otherwise it is the fixed
\* advice for that class, the same for every fallback error.
C7_AggregatesUnlessClassified ==
  [][ notice'.code = "scene/generation-failed" =>
        LET g == MessageOf(geminiError)
            f == MessageOf(pollinationsError')
            head == <<"Failed to generate ", request.scenes[i], " scene.\n">>
        IN  /\ SubSeq(notice'.message, 1, 3) = head
            /\ (~IsAuthMessage(g) /\ ~IsQuotaMessage(g)) =>
                 /\ HasPieces(notice'.message, g)
                 /\ HasPieces(notice'.message, f)
            /\ IsAuthMessage(g) =>
                 notice'.message =
                   head \o <<AuthAdvice>>
            /\ (~IsAuthMessage(g) /\ IsQuotaMessage(g)) =>
                 notice'.message =
                   head \o <<QuotaAdvice>>
    ]_vars

\* C7 happens: a batch failed on a primary error of no class
C7_Witness ==
  /\ notice.code = "scene/generation-failed"
  /\ HasPieces(notice.message, <<"Gemini: ">>)
  /\ HasPieces(notice.message, MessageOf(pollinationsError))
  /\ pollinationsError # NoError

\* C8 as claimed: a candidate that decodes to fewer than 5*1024 bytes scores
\* 0, and the cascade does not return it.
C8_Under5KBScoresZero ==
  \A c \in scored :
    DecodedBytes(c) < 5 * 1024 => Score(c) = 0 /\ ~JustReturned(c)

\* C9 as claimed: a well-formed candidate that decodes to at least 50 KB
\* scores 60 or more and is returned by the step that scored it, so the
\* model is not attempted a second time.
C9_Over50KBAcceptedAtOnce ==
  \A c \in scored :
    (StartsWithDataImage(c.mimeType) /\ DecodedBytes(c) >= 50 * 1024) =>
      Score(c) >= 60 /\ JustReturned(c)

\* the timer has fired for the text in the box
Interpreted == moodText # << >> /\ interpretation.rawInput = moodText

\* what the classifiers make of a sanitized text
ClassifiedIntent(sanitized) == ExtractIntent(SplitWords(sanitized))

\* the dimensions the notes of rule set `scene` name, in the notes' order
NotedBy(scene) ==
  LET notes == SelectSeq(interpretation.overrideNotes, LAMBDA n : n[1] = scene)
  IN  [k \in 1..Len(notes) |-> notes[k][2]]

NotesWritten ==
  [k \in 1..Len(interpretation.overrideNotes) |->
     <<interpretation.overrideNotes[k][1], interpretation.overrideNotes[k][2]>>]

\* the override-flagged rules that fire on classified intent c, in the order
\* interpretMood runs them
RulesFiring(c, selected) ==
  (IF selected = <<"studio">>
     THEN (IF c.temperature # "neutral" THEN <<<<"Studio: ", "temperature">>>> ELSE << >>) \o
          (IF c.energy = "vibrant" THEN <<<<"Studio: ", "energy">>>> ELSE << >>) \o
          (IF c.materialBias # "none" THEN <<<<"Studio: ", "material">>>> ELSE << >>) \o
          (IF c.lightQuality \notin {"soft diffused", "bright even"}
             THEN <<<<"Studio: ", "light">>>> ELSE << >>)
     ELSE << >>) \o
  (IF includes(selected, "lifestyle") /\ c.lightQuality = "directional"
     THEN <<<<"Lifestyle: ", "directional light">>>> ELSE << >>)

\* C11: the interpretation has one note per override-flagged rule that
\* fired (the four studio-only rules, the lifestyle rule), in firing order,
\* and no other note: none for the editorial adjustments, none when the
\* defaults are used; wasOverridden holds exactly when there is a note.
C11_NotesMatchOverrides ==
  /\ interpretation.wasOverridden = (Len(interpretation.overrideNotes) > 0)
  /\ Interpreted =>
       LET sanitized == sanitizeInput(moodText)
       IN  NotesWritten =
             (IF Len(sanitized) < 2 THEN << >>
              ELSE RulesFiring(ClassifiedIntent(sanitized), selectedScenes))

\* C11 happens: the lifestyle rule fired and wrote the only note, the
\* editorial material adjustment fired and wrote none
C11_Witness ==
  /\ Interpreted
  /\ selectedScenes = <<"lifestyle", "editorial">>
  /\ NotesWritten = <<<<"Lifestyle: ", "directional light">>>>
  /\ interpretation.wasOverridden
  /\ interpretation.materialBias = "concrete"
  /\ ClassifiedIntent(sanitizeInput(moodText)).materialBias = "none"

\* the positive prompt a batch compiles for `scene` from the interpretation
\* on the page
PositiveFor(scene) == PROMPT_BUILDERS(scene, product, interpretation).positive

WarmModifier == <<"very slightly warm color temperature">>

\* C12 (as claimed): for the selection studio, lifestyle and a text
\* classified warm, the studio scene is held to a neutral temperature and
\* the override is noted, while the lifestyle scene keeps the warm one.
C12_StudioSceneKeptNeutral ==
  (/\ Interpreted
   /\ selectedScenes = <<"studio", "lifestyle">>
   /\ ClassifiedIntent(sanitizeInput(moodText)).temperature = "warm") =>
    /\ \E k \in 1..Len(NotesWritten) : NotesWritten[k] = <<"Studio: ", "temperature">>
    /\ interpretation.wasOverridden
    /\ ~HasPieces(PositiveFor("studio"), WarmModifier)
    /\ HasPieces(PositiveFor("lifestyle"), WarmModifier)

\* the timer has fired for the text in the box, or the box is still empty
\* and the step's mount effect has run
Resolved == interpretation.rawInput = moodText

\* no mood text is usable: the sanitizer leaves nothing or a single character
NoUsableMood == Len(sanitizeInput(moodText)) < 2

\* the four fields every default interpretation has
PlainDefaults ==
  /\ interpretation.temperature = "neutral"
  /\ interpretation.energy = "calm"
  /\ ~interpretation.wasOverridden
  /\ interpretation.overrideNotes = << >>

Dimensions ==
  <<[field |-> "temperature", dictionary |-> TEMPERATURE_KEYWORDS,
     fallback |-> "neutral", eitherWay |-> TRUE],
    [field |-> "energy", dictionary |-> ENERGY_KEYWORDS,
     fallback |-> "moderate", eitherWay |-> TRUE],
    [field |-> "materialBias", dictionary |-> MATERIAL_KEYWORDS,
     fallback |-> "none", eitherWay |-> FALSE],
    [field |-> "lightQuality", dictionary |-> LIGHT_QUALITY_KEYWORDS,
     fallback |-> "soft diffused", eitherWay |-> TRUE]>>

\* the tokens of the text in the box
WordsTyped == SplitWords(sanitizeInput(moodText))

\* the count of every category of dimension d, in dictionary order
Counts(d) ==
  [n \in 1..Len(d.dictionary) |->
     KeywordScore(WordsTyped, d.dictionary[n].keywords, d.eitherWay)]

\* the category whose count is above every other category's, if there is one
StrictlyHighest(d) ==
  {d.dictionary[n].category : n \in
     {n \in 1..Len(d.dictionary) :
        \A m \in 1..Len(d.dictionary) : m # n => Counts(d)[m] < Counts(d)[n]}}

\* the first category in dictionary order among those with the highest
\* count, if that count is not zero
FirstHighest(d, counts) ==
  {d.dictionary[n].category : n \in
     {n \in 1..Len(d.dictionary) :
        /\ counts[n] > 0
        /\ \A m \in 1..Len(d.dictionary) :
             IF m < n THEN counts[m] < counts[n] ELSE counts[m] <= counts[n]}}

\* the classified value of dimension d is the one of `winners`, or the
\* dimension's default when there is none
ClassifiedAs(d, winners) ==
  LET value == ExtractIntent(WordsTyped)[d.field]
  IN  IF winners = {} THEN value = d.fallback ELSE value \in winners

\* C14 (as claimed): in each dimension the classifier returns the category
\* with the strictly highest count, and the dimension's default when the
\* highest count is shared or every count is zero.
C14_TiesGoToDefault ==
  (Interpreted /\ ~NoUsableMood) =>
    \A k \in 1..Len(Dimensions) : ClassifiedAs(Dimensions[k], StrictlyHighest(Dimensions[k]))

\* C14 (amended): in each dimension the classifier returns the category with
\* the highest count, the first of them in dictionary order when several
\* share it, and the dimension's default when every count is zero.
C14_FirstHighestWins ==
  (Interpreted /\ ~NoUsableMood) =>
    \A k \in 1..Len(Dimensions) : ClassifiedAs(Dimensions[k], FirstHighest(Dimensions[k], Counts(Dimensions[k])))

\* C14 happens: warm and cool have one token each, and the text is read as warm
C14_Witness ==
  /\ Interpreted
  /\ selectedScenes = <<"lifestyle">>
  /\ Counts(Dimensions[1]) = <<1, 1, 0>>
  /\ interpretation.temperature = "warm"

\* the counts of dimension d when a token counts for a category if it
\* contains one of its keywords or is contained in one
CountsEitherWay(d) ==
  [n \in 1..Len(d.dictionary) |-> KeywordScore(WordsTyped, d.dictionary[n].keywords, TRUE)]

\* C15 (as claimed): in all four dimensions a token counts for a category
\* when it contains one of the category's keywords or is contained in one;
\* the classified value is the one these counts give.
C15_BothDirectionsEverywhere ==
  (Interpreted /\ ~NoUsableMood) =>
    \A k \in 1..Len(Dimensions) :
      ClassifiedAs(Dimensions[k], FirstHighest(Dimensions[k], CountsEitherWay(Dimensions[k])))

\* C16: when lifestyle is among the selected scenes and the classifiers read
\* the text as directional light, the interpretation has soft diffused
\* light, wasOverridden is set and a note names the directional light.
C16_LifestyleSoftensDirectional ==
  (/\ Interpreted
   /\ ~NoUsableMood
   /\ includes(selectedScenes, "lifestyle")
   /\ ExtractIntent(WordsTyped).lightQuality = "directional") =>
    /\ interpretation.lightQuality = "soft diffused"
    /\ interpretation.wasOverridden
    /\ \E k \in 1..Len(interpretation.overrideNotes) :
         /\ interpretation.overrideNotes[k][1] = "Lifestyle: "
         /\ interpretation.overrideNotes[k][2] = "directional light"

\* C16 happens: "dramatic shadow contrast" with lifestyle and editorial
C16_Witness ==
  /\ Interpreted
  /\ selectedScenes = <<"editorial", "lifestyle">>
  /\ ExtractIntent(WordsTyped).lightQuality = "directional"
  /\ Len(WordsTyped) = 3
  /\ interpretation.lightQuality = "soft diffused"
  /\ Len(interpretation.overrideNotes) = 1

C18_AtMost200Chars ==
  /\ Len(lastSanitized) <= MAX_MOOD_CHARS
  /\ Len(lastSanitized) <= Len(moodText)

\* C18 happens: a raw text of more than 200 characters was sanitized, and
\* 200 characters came back
C18_Witness ==
  /\ Resolved
  /\ Len(moodText) > MAX_MOOD_CHARS
  /\ Len(lastSanitized) = MAX_MOOD_CHARS

\* the compilation of the scene the loop is at
Current == Compilation(request, i, prompt)

\* a scene has been compiled, and an earlier compilation is remembered
TwoCompilations == i > 0 /\ remembered # NoCompilation

\* the positive prompt of a compilation as the builder and the brand
\* guidance made it, without the directive a batch of several scenes puts
\* in front
Compiled(c) ==
  IF c.multiScene
    THEN SubSeq(c.prompt.positive, Len(buildConsistencyPrefix) + 1, Len(c.prompt.positive))
    ELSE c.prompt.positive

SameScene ==
  /\ remembered.sceneType = Current.sceneType
  /\ remembered.productName = Current.productName
  /\ remembered.businessContext = Current.businessContext

\* C20: two compilations of one archetype whose interpretations agree on
\* temperature and energy, and for lifestyle and editorial on materialBias,
\* give the same pair, whatever their lightQuality, rawInput, wasOverridden
\* and overrideNotes are and, for studio, whatever their materialBias is;
\* and the negative prompt is the same for any two compilations of one
\* archetype.
C20_OnlyModifierAndMaterial ==
  TwoCompilations =>
    /\ (/\ SameScene
        /\ remembered.interpretation.temperature = Current.interpretation.temperature
        /\ remembered.interpretation.energy = Current.interpretation.energy
        /\ \/ Current.sceneType = "studio"
           \/ remembered.interpretation.materialBias = Current.interpretation.materialBias) =>
          Compiled(remembered) = Compiled(Current)
    /\ remembered.sceneType = Current.sceneType =>
          remembered.prompt.negative = Current.prompt.negative

\* C20 happens: a studio scene compiled from two interpretations of
\* different materialBias and lightQuality, and a lifestyle or editorial
\* scene from two that differ in what the builders do not read
C20_Witness ==
  /\ TwoCompilations
  /\ SameScene
  /\ remembered.interpretation.temperature = Current.interpretation.temperature
  /\ remembered.interpretation.energy = Current.interpretation.energy
  /\ \/ /\ Current.sceneType = "studio"
        /\ remembered.interpretation.materialBias # Current.interpretation.materialBias
        /\ remembered.interpretation.lightQuality # Current.interpretation.lightQuality
     \/ /\ Current.sceneType # "studio"
        /\ remembered.interpretation.materialBias = Current.interpretation.materialBias
        /\ remembered.interpretation.materialBias # "none"
        /\ remembered.interpretation.wasOverridden # Current.interpretation.wasOverridden
  /\ Compiled(remembered) = Compiled(Current)
  /\ Current.prompt.positive # << >>

\* text begins with the fragments of start
BeginsWith(text, start) ==
  Len(start) <= Len(text) /\ SubSeq(text, 1, Len(start)) = start

\* the words every consistency directive opens with
Directive == "MULTI-SCENE CONSISTENCY: This is part of a multi-scene product shoot."

\* the words the template of each archetype opens with
Opening ==
  [studio |-> "Professional commercial product photography of ",
   lifestyle |-> "Lifestyle product photography of ",
   editorial |-> "Editorial product photography of "]

\* the scenes of a batch of `total` carry the directive, or none does
DirectiveAsBatch(scenes, total) ==
  \A k \in 1..Len(scenes) :
    LET used == scenes[k].promptUsed
    IN  IF total > 1
          THEN /\ BeginsWith(used, buildConsistencyPrefix)
               /\ used[1] = Directive
               /\ used[Len(buildConsistencyPrefix) + 1] = Opening[scenes[k].sceneType]
          ELSE used[1] = Opening[scenes[k].sceneType]

\* C21: in a batch of more than one scene the promptUsed of every generated
\* scene begins with the one fixed consistency directive, followed by the
\* archetype's template; in a batch of one scene it begins with the
\* archetype's template. Holds of the scenes generateScenes has collected
\* and of those it has returned to the page.
C21_DirectiveInMultiSceneBatches ==
  /\ DirectiveAsBatch(genResults, Len(request.scenes))
  /\ step = "results" => DirectiveAsBatch(results, Len(results))

\* C21 happens: a batch of three scenes has been returned
C21_Witness ==
  /\ step = "results"
  /\ Len(results) = MAX_SCENES
  /\ \A k \in 1..Len(results) : results[k].promptUsed[1] = Directive

\* the provider calls issued so far for the scene in progress
CallsIssued == geminiCalls[1] + geminiCalls[2] + geminiCalls[3] + fallbackCalls

\* a provider call of the batch is awaited
Awaiting == pc \in {"gemini", "pollinations"}

\* C22: the scenes of a batch are worked on one at a time in request order.
\* While a provider call is awaited it belongs to scene i, the progress
\* callback has been invoked with (i, total, archetype of scene i), and
\* exactly the scenes before i have their result. A step issues at most one
\* call, and only when no other call is awaited or in the step that takes
\* the answer of the awaited one. The callback is invoked in no step but the
\* one that begins a scene, and the batch moves from scene i to scene i + 1
\* only in the step that takes the last answer for scene i and files its
\* result.
C22_OneSceneAtATime ==
  [][/\ Awaiting' =>
          /\ i' \in 1..Len(request'.scenes)
          /\ progressCurrent' = i'
          /\ progressTotal' = Len(request'.scenes)
          /\ progressScene' = request'.scenes[i']
          /\ Len(genResults') = i' - 1
          /\ \A k \in 1..Len(genResults') : genResults'[k].sceneType = request'.scenes[k]
          /\ CallsIssued' >= 1
          /\ pc' = "gemini" <=> fallbackCalls' = 0
     /\ (Awaiting /\ Awaiting') =>
          /\ request' = request
          /\ \/ i' = i /\ CallsIssued' = CallsIssued + 1 /\ UNCHANGED <<genResults, progressVars>>
             \/ /\ i' = i + 1
                /\ CallsIssued' = 1
                /\ Len(genResults') = Len(genResults) + 1
                /\ SubSeq(genResults', 1, Len(genResults)) = genResults
     /\ (~Awaiting /\ Awaiting') => i' = 1 /\ CallsIssued' = 1
     /\ (progressVars' # progressVars /\ Awaiting') => (~Awaiting \/ i' = i + 1)
    ]_vars

\* C22 happens: the second scene of a batch awaits its second provider call
C22_Witness ==
  /\ Awaiting
  /\ i = 2
  /\ CallsIssued = 2
  /\ progressCurrent = 2
  /\ Len(genResults) = 1

\* C23: every provider call is bounded by a timeout, so a batch that has
\* begun always ends, by returning or by raising, also when a provider
\* never answers.
C23_EveryBatchEnds == Awaiting ~> ~Awaiting

\* the positive prompt of an archetype built from an interpretation, as a
\* batch of `total` scenes for this product and brand words it
BuiltFrom(sceneType, interp, productName, bc, total) ==
  (IF total > 1 THEN buildConsistencyPrefix ELSE << >>)
    \o PROMPT_BUILDERS(sceneType, productName, interp).positive
    \o BrandGuidance(bc)

\* C24: through a batch the request keeps the interpretation, the product
\* and the scene list it was called with, and so do the page's own values
\* they were taken from; the prompt of the scene in progress is built from
\* the request's interpretation, and it is that prompt, unchanged, that is
\* filed as the scene's promptUsed, in the list being collected and in the
\* list returned.
C24_OneInterpretationPerBatch ==
  /\ [][Awaiting =>
          /\ UNCHANGED <<product, selectedScenes>>
          /\ Awaiting' =>
               /\ request' = request
               /\ interpretation' = interpretation
               /\ i' = i => prompt' = prompt
          /\ LET filed == IF step' = "results" THEN results' ELSE genResults'
             IN  \/ step' = "mood"
                 \/ filed = genResults /\ i' = i
                 \/ /\ filed = Append(genResults, filed[Len(filed)])
                    /\ filed[Len(filed)].promptUsed = prompt.positive
                    /\ interpretation' = interpretation]_vars
  /\ [](Awaiting =>
          /\ request.product = product
          /\ request.scenes = selectedScenes
          /\ prompt.positive =
               BuiltFrom(request.scenes[i], request.interpretation, request.product,
                         request.businessContext, Len(request.scenes)))

\* C24 happens: three scenes returned, and the interpretation they were
\* built from is one that shows in the lifestyle and editorial prompts
C24_Witness ==
  /\ step = "results"
  /\ Len(results) = MAX_SCENES
  /\ interpretation.materialBias # "none"
  /\ \A k \in 1..Len(results) :
       \E j \in 1..Len(results[k].promptUsed) :
         results[k].sceneType # "studio" =>
           results[k].promptUsed[j] = materialMap[interpretation.materialBias][1]

\* a selection the selector allows: no archetype twice, at most three
Selection(scenes) ==
  /\ Len(scenes) <= MAX_SCENES
  /\ \A j, k \in 1..Len(scenes) : scenes[j] = scenes[k] => j = k
  /\ \A k \in 1..Len(scenes) : scenes[k] \in SceneType

\* C25: whatever the user clicks, the scene selection holds no archetype
\* twice and at most 3 entries, and a running generateScenes was called
\* with a selection of 1 to 3 scenes.
C25_SelectionWithinBounds ==
  /\ Selection(selectedScenes)
  /\ (step = "generating" \/ Awaiting) =>
       /\ Selection(request.scenes)
       /\ Len(request.scenes) \in 1..MAX_SCENES

\* C25 happens: a batch runs for a selection of three that was made in
\* another order than the cards are shown in
C25_Witness ==
  /\ Awaiting
  /\ request.scenes = <<"editorial", "studio", "lifestyle">>
  /\ selectedScenes = request.scenes

\* the step enters 'generating' and calls generateScenes
Starts == step # "generating" /\ step' = "generating" /\ request' # NoRequest /\ pc' = "gemini"

\* the step is a click on generate or skip with a product and scenes chosen
ClickToGenerate == asked'.clicked /\ product # Null /\ Len(selectedScenes) > 0

\* C26: no generation starts but by a click, and none by a click in cloud
\* mode unless canGenerate() holds and isFreeTier() does not: such a click
\* leaves the page in the mood step, calls nothing and reports insufficient
\* credits. In local mode no click is answered with insufficient credits,
\* and with an API key the generation starts whatever the two say.
C26_CreditsGateCloudOnly ==
  [][/\ Starts =>
          /\ ClickToGenerate
          /\ asked'.isLocalMode \/ (asked'.canGenerate /\ ~asked'.isFreeTier)
     /\ (ClickToGenerate /\ ~asked'.isLocalMode
           /\ (~asked'.canGenerate \/ asked'.isFreeTier)) =>
          /\ step' = "mood" /\ pc' = "idle" /\ request' = NoRequest
          /\ notice'.code = "payment/insufficient-credits"
     /\ (ClickToGenerate /\ asked'.isLocalMode) =>
          /\ notice'.code # "payment/insufficient-credits"
          /\ asked'.apiKey => Starts
    ]_vars

\* C26 happens: a click in the mood step, with a product and scenes chosen,
\* was refused for want of credits
C26_Witness ==
  /\ step = "mood"
  /\ product # Null
  /\ Len(selectedScenes) > 0
  /\ notice.code = "payment/insufficient-credits"
  /\ notice.message = <<"Photo Studio requires credits. Purchase credits to access scene generation.">>
  /\ asked.clicked /\ ~asked.isLocalMode /\ asked.canGenerate /\ asked.isFreeTier
  /\ pc = "idle"

\* C27: whatever the mood text, empty or not, the interpretation that
\* interpretMood returns for a selection with lifestyle in it never has
\* lightQuality = directional, editorial selected or not.
C27_LifestyleNeverDirectional ==
  (Resolved /\ includes(selectedScenes, "lifestyle")) =>
    interpretation.lightQuality # "directional"

\* C28: every image in a GeneratedScene, collected or returned, from the
\* primary or from the fallback provider, is one the Quality Validator
\* scores QUALITY_THRESHOLD or higher.
C28_ReturnedImagesValidated ==
  /\ \A k \in 1..Len(genResults) : Score(genResults[k].imageBase64) >= QUALITY_THRESHOLD
  /\ \A k \in 1..Len(results) : Score(results[k].imageBase64) >= QUALITY_THRESHOLD

\* what the cascade does if the awaited Gemini call raises err
IfRaised(err) == OnGeminiError(modelIdx, bestImage, bestScore, err)

\* C29: an error raised by an attempt ends the retry loop of its model
\* variant. Whatever error the awaited call raises, the cascade goes on with
\* the first attempt of the next variant, or returns the usable sample it
\* holds, or, at the last variant, throws into generateScenes' catch, which
\* calls the fallback. Within a scene the cascade never returns to an
\* earlier variant and only the variant it is at receives calls. An error
\* leaves generateScenes only in the step in which the fallback fails, after
\* every variant has been called.
C29_ErrorEndsTheVariant ==
  /\ [](pc = "gemini" =>
          \A err \in GeminiErrors :
            /\ IfRaised(err).kind = "call" =>
                 /\ IfRaised(err).modelIdx = modelIdx + 1
                 /\ IfRaised(err).attempt = 0
            /\ IfRaised(err).kind = "throw" => modelIdx = Len(modelsToTry)
            /\ IfRaised(err).kind = "return" =>
                 /\ IfRaised(err).image = bestImage
                 /\ bestScore >= QUALITY_THRESHOLD)
  /\ [][(pc = "gemini" /\ Awaiting' /\ i' = i) =>
          /\ pc' = "gemini" => modelIdx' >= modelIdx
          /\ \A m \in 1..Len(modelsToTry) :
               (pc' = "pollinations" \/ m # modelIdx') => geminiCalls'[m] = geminiCalls[m]
          /\ \A m \in 1..Len(modelsToTry) : geminiCalls'[m] <= MAX_RETRIES]_vars
  /\ [][notice'.code = "scene/generation-failed" =>
          /\ pc = "pollinations"
          /\ fallbackCalls = 1
          /\ pollinationsError' # NoError
          /\ \A m \in 1..Len(modelsToTry) : geminiCalls[m] >= 1]_vars

\* C29 happens: the first variant raised an error at its first attempt, the
\* second raised one after a sample without an image, and the third is tried
C29_Witness ==
  /\ pc = "gemini"
  /\ modelIdx = Len(modelsToTry)
  /\ geminiCalls[1] = 1
  /\ geminiCalls[2] = MAX_RETRIES
  /\ lastError \in GeminiErrors

\* C30: the interpretation handed to generateScenes by a click on generate
\* or on skip is interpretMood of the mood text and the selection the page
\* holds at that moment; after a skip the text is empty, which makes it the
\* default interpretation of the selection.
C30_HandedInterpretationIsCurrent ==
  step = "generating" =>
    /\ request.scenes = selectedScenes
    /\ request.interpretation = interpretMood(moodText, selectedScenes)

====
